---- MODULE Spec2Model ----
(***************************************************************************)
(* Gioco della Bestia (Garurucode/Bestia): the deck, the knock evaluator,  *)
(* the card memory tracker and the trick engine of src/game_revision.py,   *)
(* and the knock rule of the earlier script src/game.py.                   *)
(*                                                                         *)
(* A card is the record [valore, seme]: Carta.__eq__ and __hash__ compare  *)
(* (valore, seme) only.  The mutable attribute Carta.forza_presa is the    *)
(* state function forza: every (valore, seme) is one Carta object, built   *)
(* once by crea_mazzo and passed around by reference.                      *)
(***************************************************************************)
EXTENDS Integers, Sequences, FiniteSets, TLC

VARIABLES
    fase,                    \* position of the caller in the round
    carte,                   \* Mazzo.carte
    briscola,                \* Mazzo.briscola / BriscolaGame.briscola
    forza,                   \* Carta.forza_presa of every Carta object
    giocatori,               \* number of Giocatore objects in BriscolaGame.giocatori
    mano,                    \* Giocatore.mano, per player
    carte_scartate,          \* Giocatore.carte_scartate, per player
    carte_vinte,             \* Giocatore.carte_vinte, per player
    turni_vinti,             \* Giocatore.turni_vinti, per player
    bussatori,               \* bussatori of fase_bussate, then giocatori_attivi
    affondatori,             \* affondatori of fase_bussate still to be offered cards
    indice_giocatore_di_mano,\* BriscolaGame.indice_giocatore_di_mano
    carte_giocate,           \* TracciamentoCarte.carte_giocate
    carte_turno_corrente,    \* TracciamentoCarte.carte_turno_corrente
    tavolo,                  \* GestoreTurno.tavolo
    seme_richiesto,          \* GestoreTurno.seme_richiesto
    carta_vincente_corrente, \* GestoreTurno.carta_vincente_corrente
    turno,                   \* the loop variable turno of gioca_partita
    esito                    \* the last call made and what it returned or raised

vars == <<fase, carte, briscola, forza, giocatori, mano, carte_scartate,
          carte_vinte, turni_vinti, bussatori, affondatori,
          indice_giocatore_di_mano, carte_giocate, carte_turno_corrente,
          tavolo, seme_richiesto, carta_vincente_corrente, turno, esito>>

(***************************************************************************)
(* Bounds of the model.                                                    *)
(***************************************************************************)
\* number of players of the round (BriscolaGame(num_giocatori))
NumGiocatori == 2
\* the most cards put on the table of one trick, where a caller feeds the
\* trick engine directly (SpecTavolo)
MaxTavolo == 3
\* the largest stake and pot the knock evaluator is tried with (SpecBussata)
MaxFiches == 2
\* the most cards registered as played before the tracker is queried
\* (SpecTraccia)
MaxRegistrate == 2
\* the most cards asked of the deck in one draw (SpecPesca)
MaxPesca == 4

(***************************************************************************)
(* ConfigurazioneGioco                                                     *)
(***************************************************************************)
SEMI == <<"coppe", "denari", "spade", "bastoni">>

VALORI == <<"Asso", "2", "3", "4", "5", "6", "7", "Fante", "Cavallo", "Re">>

FORZA_NON_BRISCOLA ==
    [v \in {VALORI[i] : i \in DOMAIN VALORI} |->
        CASE v = "Asso" -> 90 [] v = "3" -> 80 [] v = "Re" -> 60
          [] v = "Cavallo" -> 50 [] v = "Fante" -> 40 [] v = "7" -> 20
          [] v = "6" -> 15 [] v = "5" -> 10 [] v = "4" -> 5 [] v = "2" -> 2]

\* FORZA_BRISCOLA with the strengths of Re and Cavallo exchanged
FORZA_BRISCOLA_re_cavallo ==
    [v \in {VALORI[i] : i \in DOMAIN VALORI} |->
        CASE v = "Asso" -> 100 [] v = "3" -> 95 [] v = "Re" -> 75
          [] v = "Cavallo" -> 85 [] v = "Fante" -> 65 [] v = "7" -> 55
          [] v = "6" -> 50 [] v = "5" -> 45 [] v = "4" -> 40 [] v = "2" -> 35]

FORZA_BRISCOLA ==
    [v \in {VALORI[i] : i \in DOMAIN VALORI} |->
        CASE v = "Asso" -> 100 [] v = "3" -> 95 [] v = "Re" -> 85
          [] v = "Cavallo" -> 75 [] v = "Fante" -> 65 [] v = "7" -> 55
          [] v = "6" -> 50 [] v = "5" -> 45 [] v = "4" -> 40 [] v = "2" -> 35]

\* src/game.py: forza_non_briscola
forza_non_briscola ==
    [v \in {VALORI[i] : i \in DOMAIN VALORI} |->
        CASE v = "Asso" -> 90 [] v = "3" -> 80 [] v = "Re" -> 60
          [] v = "Cavallo" -> 50 [] v = "Fante" -> 40 [] v = "7" -> 20
          [] v = "6" -> 15 [] v = "5" -> 10 [] v = "4" -> 5 [] v = "2" -> 2]

\* src/game.py: forza_briscola
forza_briscola ==
    [v \in {VALORI[i] : i \in DOMAIN VALORI} |->
        CASE v = "Asso" -> 100 [] v = "3" -> 95 [] v = "Re" -> 85
          [] v = "Cavallo" -> 75 [] v = "Fante" -> 65 [] v = "7" -> 55
          [] v = "6" -> 50 [] v = "5" -> 45 [] v = "4" -> 40 [] v = "2" -> 35]

CARTE_PER_MANO == 3

\* fase_bussate: folders draw only while len(bussatori) <= 3
LIMITE_BUSSATORI == 3

SOGLIA_PUNTI_BUSSATA == 150

\* the threshold of the earlier script's bussata (src/game.py)
SOGLIA_PUNTI_SCRIPT == 120

(***************************************************************************)
(* Carta                                                                   *)
(***************************************************************************)
Carta(v, s) == [valore |-> v, seme |-> s]

\* None, where the code holds Optional[Carta]
Nessuna == Carta("-", "-")

\* None, where the code holds Optional[str] (seme_richiesto)
NessunSeme == "-"

\* the default of the dataclass field forza_presa
ForzaIniziale == 0

\* Mazzo.crea_mazzo: for valore in VALORI for seme in SEMI
MazzoOrdinato ==
    [i \in 1..(Len(VALORI) * Len(SEMI)) |->
        Carta(VALORI[((i - 1) \div Len(SEMI)) + 1], SEMI[((i - 1) % Len(SEMI)) + 1])]

Carte == {MazzoOrdinato[i] : i \in DOMAIN MazzoOrdinato}

Giocatori == 0..(NumGiocatori - 1)

(***************************************************************************)
(* Helpers on sequences and sets                                           *)
(***************************************************************************)
Elementi(s) == {s[i] : i \in DOMAIN s}

\* list.pop(i) with a 1-based index: the list without its i-th element
SenzaIndice(s, i) == SubSeq(s, 1, i - 1) \o SubSeq(s, i + 1, Len(s))

\* the elements of the set of indices I, in increasing order: the indices a
\* list comprehension over enumerate(...) keeps
RECURSIVE InOrdine(_)
InOrdine(I) ==
    IF I = {} THEN <<>>
    ELSE LET m == CHOOSE x \in I : \A y \in I : x <= y
         IN <<m>> \o InOrdine(I \ {m})

RECURSIVE Somma(_)
Somma(s) == IF s = <<>> THEN 0 ELSE Head(s) + Somma(Tail(s))

(***************************************************************************)
(* Mazzo                                                                   *)
(***************************************************************************)
\* pesca_carte handing out the cards that remain when too few remain
pesca_carte_parziale(mazzo, num_carte) ==
    IF Len(mazzo) < num_carte
    THEN <<mazzo, <<>>>>
    ELSE <<SubSeq(mazzo, 1, num_carte), SubSeq(mazzo, num_carte + 1, Len(mazzo))>>

\* pesca_carte reading the cards without popping them
pesca_carte_senza_pop(mazzo, num_carte) ==
    IF Len(mazzo) < num_carte
    THEN <<<<>>, mazzo>>
    ELSE <<SubSeq(mazzo, 1, num_carte), mazzo>>

\* Mazzo.pesca_carte(num_carte): <<the cards returned, the deck left>>
pesca_carte(mazzo, num_carte) ==
    IF Len(mazzo) < num_carte
    THEN <<<<>>, mazzo>>
    ELSE <<SubSeq(mazzo, 1, num_carte), SubSeq(mazzo, num_carte + 1, Len(mazzo))>>

\* forza_assegnata reading the rank of the trump card for a non-trump card
forza_assegnata_valore_briscola(carta, bris) ==
    IF carta.seme = bris.seme
    THEN FORZA_BRISCOLA[carta.valore]
    ELSE FORZA_NON_BRISCOLA[bris.valore]

\* Mazzo.assegna_forza_carte: the strength given to one card of self.carte
forza_assegnata(carta, bris) ==
    IF carta.seme = bris.seme
    THEN FORZA_BRISCOLA[carta.valore]
    ELSE FORZA_NON_BRISCOLA[carta.valore]

\* src/game.py distribuisci_carte: the cards of a hand
CARTE_MANO_SCRIPT == 3

\* src/game.py distribuisci_carte(num_giocatori, mazzo): <<mani, the deck left>>
distribuisci_carte(num_giocatori, mazzo) ==
    IF Len(mazzo) < num_giocatori * CARTE_MANO_SCRIPT
    THEN <<<<>>, mazzo>>
    ELSE <<[i \in 1..num_giocatori |->
               SubSeq(mazzo, (i - 1) * CARTE_MANO_SCRIPT + 1, i * CARTE_MANO_SCRIPT)],
           SubSeq(mazzo, num_giocatori * CARTE_MANO_SCRIPT + 1, Len(mazzo))>>

\* Mazzo.assegna_forza_carte: forza_presa of every Carta after the loop over
\* self.carte; a Carta that is not in self.carte keeps what it had
assegna_forza_carte(mazzo, bris, f) ==
    [c \in Carte |-> IF c \in Elementi(mazzo) THEN forza_assegnata(c, bris) ELSE f[c]]

(***************************************************************************)
(* Giocatore                                                               *)
(***************************************************************************)
\* scarta_mano without self.mano.clear()
scarta_mano_senza_clear(m, scartate) ==
    [mano |-> m, carte_scartate |-> scartate \o m]

\* Giocatore.scarta_mano(): the hand and the discards after the call
scarta_mano(m, scartate) ==
    [mano |-> <<>>, carte_scartate |-> scartate \o m]

\* Giocatore.calcola_punti_mano
calcola_punti_mano(m) == Somma([i \in DOMAIN m |-> forza[m[i]]])

(***************************************************************************)
(* GestoreBussata                                                          *)
(***************************************************************************)
HaCarta(m, v, s) == \E i \in DOMAIN m : m[i].valore = v /\ m[i].seme = s

\* ha_mano_sicura without its branch for an Ace as trump card
ha_mano_sicura_senza_asso(m, bris) ==
    IF HaCarta(m, "Asso", bris.seme) THEN TRUE
    ELSE HaCarta(m, "3", bris.seme) /\ HaCarta(m, "Re", bris.seme)

\* ha_mano_sicura taking the trump 3 alone as safe whatever the trump card
ha_mano_sicura_solo_tre(m, bris) ==
    IF HaCarta(m, "Asso", bris.seme) THEN TRUE
    ELSE HaCarta(m, "3", bris.seme)

\* GestoreBussata.ha_mano_sicura
ha_mano_sicura(m, bris) ==
    IF HaCarta(m, "Asso", bris.seme) THEN TRUE
    ELSE IF bris.valore # "Asso"
         THEN HaCarta(m, "3", bris.seme) /\ HaCarta(m, "Re", bris.seme)
         ELSE HaCarta(m, "3", bris.seme)

\* verifica_bussata with >= for the threshold
verifica_bussata_soglia_inclusa(m, bris, fiches, piatto) ==
    IF ha_mano_sicura(m, bris) THEN TRUE
    ELSE IF calcola_punti_mano(m) >= SOGLIA_PUNTI_BUSSATA
         THEN fiches >= piatto
         ELSE FALSE

\* GestoreBussata.verifica_bussata
verifica_bussata(m, bris, fiches, piatto) ==
    IF ha_mano_sicura(m, bris) THEN TRUE
    ELSE IF calcola_punti_mano(m) > SOGLIA_PUNTI_BUSSATA
         THEN fiches >= piatto
         ELSE FALSE

\* src/game.py bussata: the loop over the hand, from card i on, with the
\* value of bussa so far; the elif branch of a trump 3 ends the loop (break)
RECURSIVE bussata_ciclo(_, _, _, _)
bussata_ciclo(m, bris, i, bussa) ==
    IF i > Len(m) THEN bussa
    ELSE IF m[i].valore = "Asso" /\ m[i].seme = bris.seme
         THEN bussata_ciclo(m, bris, i + 1, TRUE)
    ELSE IF m[i].valore = "3" /\ m[i].seme = bris.seme
         THEN IF bris.valore = "Asso" THEN TRUE
              ELSE IF HaCarta(m, "Re", bris.seme) THEN TRUE ELSE bussa
    ELSE bussata_ciclo(m, bris, i + 1, bussa)

\* src/game.py bussata(punti, mano, briscola)
bussata(punti, m, bris) ==
    IF punti > SOGLIA_PUNTI_SCRIPT THEN TRUE ELSE bussata_ciclo(m, bris, 1, FALSE)

(***************************************************************************)
(* TracciamentoCarte                                                       *)
(***************************************************************************)
\* TracciamentoCarte.registra_carta_giocata(carta): the two collections of
\* the tracker after the call
registra_carta_giocata(giocate, corrente, carta) ==
    [carte_giocate |-> giocate \cup {carta},
     carte_turno_corrente |-> Append(corrente, carta)]

\* reset_turno clearing the cumulative record as well
reset_turno_tutto(giocate, corrente) ==
    [carte_giocate |-> {}, carte_turno_corrente |-> <<>>]

\* TracciamentoCarte.reset_turno(): the two collections of the tracker after
\* the call
reset_turno(giocate, corrente) ==
    [carte_giocate |-> giocate, carte_turno_corrente |-> <<>>]

\* carte_conosciute leaving out the observer's discards
carte_conosciute_senza_scarti(g) ==
    Elementi(mano[g]) \cup carte_giocate

\* TracciamentoCarte.carte_conosciute(giocatore)
carte_conosciute(g) ==
    Elementi(mano[g]) \cup Elementi(carte_scartate[g]) \cup carte_giocate

\* carte_conosciute updating self.carte_giocate itself (conosciute bound to
\* the tracker's set instead of a new set)
registro_dopo_conosciute_alias(g) == carte_conosciute(g)

\* TracciamentoCarte.carte_conosciute(giocatore): self.carte_giocate after the
\* call; conosciute is a new set(), so the updates do not reach the record
registro_dopo_carte_conosciute(g) == carte_giocate

\* the loop "for valore in VALORI" of the two queries below: the test cards of
\* suit s, with the strengths of table tab, stronger than carta and not known
piu_forti_non_conosciute(carta, g, s, tab) ==
    LET I == {i \in DOMAIN VALORI :
                /\ tab[VALORI[i]] > forza[carta]
                /\ Carta(VALORI[i], s) \notin carte_conosciute(g)}
        idx == InOrdine(I)
    IN [j \in DOMAIN idx |-> Carta(VALORI[idx[j]], s)]

\* TracciamentoCarte.briscole_piu_forti_non_uscite(carta, giocatore)
briscole_piu_forti_non_uscite(carta, g) ==
    IF carta.seme # briscola.seme THEN <<>>
    ELSE piu_forti_non_conosciute(carta, g, briscola.seme, FORZA_BRISCOLA)

\* TracciamentoCarte.carte_piu_forti_non_uscite(carta, giocatore)
carte_piu_forti_non_uscite(carta, g) ==
    piu_forti_non_conosciute(carta, g, carta.seme,
        IF carta.seme = briscola.seme THEN FORZA_BRISCOLA ELSE FORZA_NON_BRISCOLA)

\* TracciamentoCarte.esiste_briscola_piu_forte_non_uscita(carta, giocatore)
esiste_briscola_piu_forte_non_uscita(carta, g) ==
    Len(briscole_piu_forti_non_uscite(carta, g)) > 0

(***************************************************************************)
(* GestoreTurno.  A list of (i, c) pairs over a hand is the sequence of    *)
(* its indices i (1-based here); the card is mano[g][i].                   *)
(***************************************************************************)
\* an entry of tavolo, and carta_vincente_corrente: the pair (giocatore, carta)
Giocata(g, c) == [giocatore |-> g, carta |-> c]

\* carta_vincente_corrente = None
NessunaGiocata == Giocata(-1, Nessuna)

\* what a call returns (the index it hands to Giocatore.gioca_carta) or raises
Ritorna(i) == [errore |-> "", indice |-> i]

Solleva(e) == [errore |-> e, indice |-> 0]

\* [(i, c) for i, c in enumerate(giocatore.mano) if c.seme == s]
IndiciDelSeme(g, s) == InOrdine({i \in DOMAIN mano[g] : mano[g][i].seme = s})

\* [(i, c) for i, c in enumerate(giocatore.mano) if c.seme != s]
IndiciNonDelSeme(g, s) == InOrdine({i \in DOMAIN mano[g] : mano[g][i].seme # s})

\* lista.sort(key=forza_presa); lista[0]: the sort is stable, so of the
\* weakest cards the one that comes first in the list
PrimoMinimo(g, lista) ==
    lista[CHOOSE j \in DOMAIN lista :
        /\ \A k \in DOMAIN lista : forza[mano[g][lista[j]]] <= forza[mano[g][lista[k]]]
        /\ \A k \in 1..(j - 1) : forza[mano[g][lista[k]]] # forza[mano[g][lista[j]]]]

\* lista.sort(key=forza_presa, reverse=True); lista[0]: reverse keeps the
\* order of equal keys, so of the strongest cards the first in the list
PrimoMassimo(g, lista) ==
    lista[CHOOSE j \in DOMAIN lista :
        /\ \A k \in DOMAIN lista : forza[mano[g][lista[j]]] >= forza[mano[g][lista[k]]]
        /\ \A k \in 1..(j - 1) : forza[mano[g][lista[k]]] # forza[mano[g][lista[j]]]]

\* _carta_batte as the earlier script's carta_vincente compares: outside the
\* trump rule, by strength alone
_carta_batte_solo_forza(carta1, carta2) ==
    LET carta1_briscola == carta1.seme = briscola.seme
        carta2_briscola == carta2.seme = briscola.seme
    IN IF carta1_briscola /\ ~carta2_briscola THEN TRUE
       ELSE IF carta2_briscola /\ ~carta1_briscola THEN FALSE
       ELSE forza[carta1] > forza[carta2]

\* GestoreTurno._carta_batte(carta1, carta2)
_carta_batte(carta1, carta2) ==
    LET carta1_briscola == carta1.seme = briscola.seme
        carta2_briscola == carta2.seme = briscola.seme
    IN IF carta1_briscola /\ ~carta2_briscola THEN TRUE
       ELSE IF carta2_briscola /\ ~carta1_briscola THEN FALSE
       ELSE IF carta1.seme = carta2.seme THEN forza[carta1] > forza[carta2]
       ELSE FALSE

\* _gioca_carta_di_mano_intelligente leading its Ace or 3 of trumps without
\* asking the tracker
_gioca_carta_di_mano_senza_tracciamento(g) ==
    LET briscole == IndiciDelSeme(g, briscola.seme)
        non_briscole == IndiciNonDelSeme(g, briscola.seme)
    IN IF non_briscole = <<>> THEN PrimoMassimo(g, briscole)
       ELSE IF briscole # <<>>
               /\ mano[g][PrimoMassimo(g, briscole)].valore \in {"Asso", "3"}
       THEN PrimoMassimo(g, briscole)
       ELSE PrimoMassimo(g, non_briscole)

\* GestoreTurno._gioca_carta_di_mano_intelligente(giocatore)
_gioca_carta_di_mano_intelligente(g) ==
    LET briscole == IndiciDelSeme(g, briscola.seme)
        non_briscole == IndiciNonDelSeme(g, briscola.seme)
    IN IF non_briscole = <<>> THEN PrimoMassimo(g, briscole)
       ELSE LET indice_migliore == PrimoMassimo(g, non_briscole)
            IN IF briscole # <<>>
               THEN LET indice_bris == PrimoMassimo(g, briscole)
                        carta_bris == mano[g][indice_bris]
                    IN IF /\ carta_bris.valore \in {"Asso", "3"}
                          /\ ~esiste_briscola_piu_forte_non_uscita(carta_bris, g)
                       THEN indice_bris
                       ELSE indice_migliore
               ELSE indice_migliore

\* carte_vincenti = [(i, c) for i, c in carte_valide if _carta_batte(c, carta_da_battere)]
CarteVincenti(g, carte_valide, carta_da_battere) ==
    LET J == InOrdine({j \in DOMAIN carte_valide :
                        _carta_batte(mano[g][carte_valide[j]], carta_da_battere)})
    IN [k \in DOMAIN J |-> carte_valide[J[k]]]

\* GestoreTurno._scegli_carta_migliore(giocatore, carte_valide, ultimo_a_giocare)
_scegli_carta_migliore(g, carte_valide, ultimo_a_giocare) ==
    IF carta_vincente_corrente = NessunaGiocata
    THEN PrimoMassimo(g, carte_valide)
    ELSE LET carta_da_battere == carta_vincente_corrente.carta
             carte_vincenti == CarteVincenti(g, carte_valide, carta_da_battere)
             sono_briscole == mano[g][carte_valide[1]].seme = briscola.seme
         IN IF ultimo_a_giocare
            THEN IF carte_vincenti # <<>>
                 THEN PrimoMinimo(g, carte_vincenti)
                 ELSE PrimoMinimo(g, carte_valide)
            ELSE IF sono_briscole
            THEN IF carte_vincenti # <<>>
                 THEN LET carta_vincente_piu_bassa ==
                              mano[g][PrimoMinimo(g, carte_vincenti)]
                      IN IF esiste_briscola_piu_forte_non_uscita(
                                carta_vincente_piu_bassa, g)
                         THEN PrimoMinimo(g, carte_valide)
                         ELSE carte_vincenti[1]
                 ELSE PrimoMinimo(g, carte_valide)
            ELSE IF carte_vincenti # <<>>
                 THEN PrimoMinimo(g, carte_vincenti)
                 ELSE PrimoMassimo(g, carte_valide)

\* GestoreTurno._gioca_carta_piu_bassa(giocatore)
_gioca_carta_piu_bassa(g) ==
    LET non_briscole == IndiciNonDelSeme(g, briscola.seme)
        briscole == IndiciDelSeme(g, briscola.seme)
    IN IF non_briscole # <<>>
       THEN PrimoMinimo(g, non_briscole)
       ELSE PrimoMinimo(g, briscole)

\* GestoreTurno._gioca_carta_non_di_mano(giocatore, ultimo_a_giocare)
_gioca_carta_non_di_mano(g, ultimo_a_giocare) ==
    LET carte_stesso_seme == IndiciDelSeme(g, seme_richiesto)
        carte_briscola == IndiciDelSeme(g, briscola.seme)
    IN IF carte_stesso_seme # <<>>
       THEN _scegli_carta_migliore(g, carte_stesso_seme, ultimo_a_giocare)
       ELSE IF carte_briscola # <<>>
       THEN _scegli_carta_migliore(g, carte_briscola, ultimo_a_giocare)
       ELSE _gioca_carta_piu_bassa(g)

\* Rule 1 testing the suit only
IndiciBriscola(g) ==
    InOrdine({i \in DOMAIN mano[g] : mano[g][i].seme = briscola.seme})

\* Rule 1 of gioca_carta_strategica: the indices of the trump-suit Ace in hand
IndiciAssoBriscola(g) ==
    InOrdine({i \in DOMAIN mano[g] :
                mano[g][i].valore = "Asso" /\ mano[g][i].seme = briscola.seme})

\* the call "self._gioca_carta_non_di_mano(giocatore)" of gioca_carta_strategica:
\* the method has a second required parameter, ultimo_a_giocare, so Python
\* raises TypeError when it binds the arguments, before the body runs
chiama_non_di_mano(g) == Solleva("TypeError")

\* gioca_carta_strategica without its test of an empty hand: the hand is then
\* first read by the call of line 372, or by briscole[0] of the leader's choice
gioca_carta_strategica_senza_controllo(g, primo_turno, giocatore_di_mano, ultimo_a_giocare) ==
    IF mano[g] = <<>>
    THEN IF ~giocatore_di_mano /\ seme_richiesto # NessunSeme
         THEN chiama_non_di_mano(g)
         ELSE Solleva("IndexError")
    ELSE IF giocatore_di_mano /\ primo_turno /\ IndiciAssoBriscola(g) # <<>>
    THEN Ritorna(IndiciAssoBriscola(g)[1])
    ELSE IF ~giocatore_di_mano /\ seme_richiesto # NessunSeme
    THEN chiama_non_di_mano(g)
    ELSE Ritorna(_gioca_carta_di_mano_intelligente(g))

\* GestoreTurno.gioca_carta_strategica(giocatore, primo_turno, giocatore_di_mano,
\* ultimo_a_giocare), up to the index it passes to Giocatore.gioca_carta
gioca_carta_strategica(g, primo_turno, giocatore_di_mano, ultimo_a_giocare) ==
    IF mano[g] = <<>> THEN Solleva("ValueError")
    ELSE IF giocatore_di_mano /\ primo_turno /\ IndiciAssoBriscola(g) # <<>>
    THEN Ritorna(IndiciAssoBriscola(g)[1])
    ELSE IF ~giocatore_di_mano /\ seme_richiesto # NessunSeme
    THEN chiama_non_di_mano(g)
    ELSE Ritorna(_gioca_carta_di_mano_intelligente(g))

\* aggiungi_carta_tavolo setting the led suit at every card
seme_dopo_ogni_carta(tav, seme, carta) == carta.seme

\* GestoreTurno.aggiungi_carta_tavolo: seme_richiesto after the call
seme_dopo(tav, seme, carta) ==
    IF Len(tav) + 1 = 1 THEN carta.seme ELSE seme

\* GestoreTurno.determina_vincitore(): what it raises, or the pair
\* (vincitore, carte_vinte) it returns
determina_vincitore(tav, vincente) ==
    IF tav = <<>>
    THEN [errore |-> "ValueError", vincitore |-> -1, carte_vinte |-> <<>>]
    ELSE [errore |-> "", vincitore |-> vincente.giocatore,
          carte_vinte |-> [i \in DOMAIN tav |-> tav[i].carta]]

\* aggiungi_carta_tavolo comparing the winner against the new card
vincente_dopo_scambiato(tav, vincente, g, carta) ==
    IF Len(tav) + 1 = 1 THEN Giocata(g, carta)
    ELSE IF _carta_batte(vincente.carta, carta) THEN Giocata(g, carta)
    ELSE vincente

\* GestoreTurno.aggiungi_carta_tavolo: carta_vincente_corrente after the call,
\* tav being the table before it
vincente_dopo(tav, vincente, g, carta) ==
    IF Len(tav) + 1 = 1 THEN Giocata(g, carta)
    ELSE IF _carta_batte(carta, vincente.carta) THEN Giocata(g, carta)
    ELSE vincente

(***************************************************************************)
(* The state of a round and the calls a round is made of.                  *)
(***************************************************************************)
\* the record of the last call: its arguments, the hand and led suit it found,
\* and what it returned (carta, vero) or raised (errore)
NessunEsito ==
    [op |-> "", giocatore |-> -1, primo_turno |-> FALSE,
     giocatore_di_mano |-> FALSE, ultimo_a_giocare |-> FALSE,
     mano |-> <<>>, seme_richiesto |-> NessunSeme, errore |-> "",
     carta |-> Nessuna, carta2 |-> Nessuna, vero |-> FALSE, inverso |-> FALSE,
     fiches |-> 0, piatto |-> 0, vinte |-> <<>>, tavolo |-> <<>>,
     lista |-> <<>>, lista2 |-> <<>>, num_carte |-> 0]

\* the cards the bounded shuffle may bring to the top of the deck
Universo ==
    {Carta("Asso", "coppe"), Carta("3", "coppe"), Carta("Re", "coppe"),
     Carta("Asso", "denari"), Carta("7", "denari")}

\* random.shuffle, bounded: the trump card and the first hand dealt are any
\* distinct cards of Universo, in any order, and the other cards lie below
\* them in crea_mazzo's order
Mescolate ==
    LET LungPrefisso == 1 + CARTE_PER_MANO
        Prefissi == {p \in [1..LungPrefisso -> Universo] :
                        \A i, j \in 1..LungPrefisso : i # j => p[i] # p[j]}
        Resto(p) == InOrdine({i \in DOMAIN MazzoOrdinato :
                                MazzoOrdinato[i] \notin Elementi(p)})
    IN {p \o [k \in DOMAIN Resto(p) |-> MazzoOrdinato[Resto(p)[k]]] : p \in Prefissi}

\* BriscolaGame.__init__, Mazzo.__init__
Init ==
    /\ fase = "nuovo"
    /\ carte = <<>>
    /\ briscola = Nessuna
    /\ forza = [c \in Carte |-> ForzaIniziale]
    /\ giocatori = 0
    /\ mano = [g \in Giocatori |-> <<>>]
    /\ carte_scartate = [g \in Giocatori |-> <<>>]
    /\ carte_vinte = [g \in Giocatori |-> <<>>]
    /\ turni_vinti = [g \in Giocatori |-> 0]
    /\ bussatori = <<>>
    /\ affondatori = <<>>
    /\ indice_giocatore_di_mano = 0
    /\ carte_giocate = {}
    /\ carte_turno_corrente = <<>>
    /\ tavolo = <<>>
    /\ seme_richiesto = NessunSeme
    /\ carta_vincente_corrente = NessunaGiocata
    /\ turno = 0
    /\ esito = NessunEsito

VarGiocatori == <<giocatori, mano, carte_scartate, carte_vinte, turni_vinti>>

VarBussate == <<bussatori, affondatori>>

VarTurno == <<indice_giocatore_di_mano, carte_giocate, carte_turno_corrente,
              tavolo, seme_richiesto, carta_vincente_corrente, turno>>

\* inizializza_gioco: self.mazzo.crea_mazzo(); self.mazzo.mescola()
CreaMazzo ==
    /\ fase = "nuovo"
    /\ carte' \in Mescolate
    /\ fase' = "mazzo"
    /\ esito' = [NessunEsito EXCEPT !.op = "crea_mazzo"]
    /\ UNCHANGED <<briscola, forza, VarGiocatori, VarBussate, VarTurno>>

\* inizializza_gioco: self.briscola = self.mazzo.estrai_briscola()
EstraiBriscola ==
    /\ fase = "mazzo"
    /\ carte # <<>>
    /\ briscola' = Head(carte)
    /\ carte' = Tail(carte)
    /\ fase' = "briscola"
    /\ esito' = [NessunEsito EXCEPT !.op = "estrai_briscola", !.carta = Head(carte)]
    /\ UNCHANGED <<forza, VarGiocatori, VarBussate, VarTurno>>

\* inizializza_gioco: self.mazzo.assegna_forza_carte()
AssegnaForzaCarte ==
    /\ fase = "briscola"
    /\ forza' = assegna_forza_carte(carte, briscola, forza)
    /\ fase' = "distribuzione"
    /\ esito' = [NessunEsito EXCEPT !.op = "assegna_forza_carte"]
    /\ UNCHANGED <<carte, briscola, VarGiocatori, VarBussate, VarTurno>>

\* carte = mazzo.pesca_carte(CARTE_PER_MANO); giocatore.aggiungi_carte(carte)
Pesca(g) ==
    LET pescata == pesca_carte(carte, CARTE_PER_MANO)
    IN /\ mano' = [mano EXCEPT ![g] = @ \o pescata[1]]
       /\ carte' = pescata[2]
       /\ esito' = [NessunEsito EXCEPT !.op = "pesca_carte", !.giocatore = g,
                                       !.mano = mano[g], !.vinte = pescata[1]]

\* inizializza_gioco: one pass of the loop that creates and deals the players
DistribuisciCarte ==
    /\ fase = "distribuzione"
    /\ giocatori < NumGiocatori
    /\ Pesca(giocatori)
    /\ giocatori' = giocatori + 1
    /\ fase' = IF giocatori + 1 = NumGiocatori THEN "bussate" ELSE "distribuzione"
    /\ UNCHANGED <<briscola, forza, carte_scartate, carte_vinte, turni_vinti,
                   VarBussate, VarTurno>>

(***************************************************************************)
(* The knock phase.  BriscolaGame.fase_bussate itself stops at its first   *)
(* call of verifica_bussata, which it makes without piatto (FaseBussate);  *)
(* the steps of its two loops are here the calls of a caller that takes    *)
(* the decision itself.                                                    *)
(***************************************************************************)
\* fase_bussate: "GestoreBussata.verifica_bussata(giocatore, self.briscola)"
\* misses the required parameter piatto: TypeError, raised for the first player
FaseBussate ==
    /\ fase = "bussate"
    /\ bussatori = <<>> /\ affondatori = <<>>
    /\ fase' = "interrotto"
    /\ esito' = [NessunEsito EXCEPT !.op = "fase_bussate", !.giocatore = 0,
                                    !.mano = mano[0], !.errore = "TypeError"]
    /\ UNCHANGED <<carte, briscola, forza, VarGiocatori, VarBussate, VarTurno>>

\* the player the first loop of fase_bussate has reached
ProssimoABussare == Len(bussatori) + Len(affondatori)

\* where the round goes once the first loop has put the last player in b or a
DopoBussate(b, a) ==
    IF Len(b) + Len(a) < NumGiocatori THEN "bussate"
    ELSE IF b = <<>> THEN "fine"
    ELSE IF a = <<>> THEN "gioco"
    ELSE "pescata"

\* fase_bussate, first loop, the branch of a knock
Bussa ==
    /\ fase = "bussate"
    /\ bussatori' = Append(bussatori, ProssimoABussare)
    /\ fase' = DopoBussate(bussatori', affondatori)
    /\ esito' = [NessunEsito EXCEPT !.op = "bussa", !.giocatore = ProssimoABussare,
                                    !.mano = mano[ProssimoABussare]]
    /\ UNCHANGED <<carte, briscola, forza, VarGiocatori, affondatori, VarTurno>>

\* fase_bussate, first loop, the branch of a fold: giocatore.scarta_mano()
Affonda ==
    LET g == ProssimoABussare
    IN /\ fase = "bussate"
       /\ carte_scartate' =
              [carte_scartate EXCEPT
                  ![g] = scarta_mano(mano[g], carte_scartate[g]).carte_scartate]
       /\ mano' = [mano EXCEPT ![g] = scarta_mano(mano[g], carte_scartate[g]).mano]
       /\ affondatori' = Append(affondatori, g)
       /\ fase' = DopoBussate(bussatori, affondatori')
       /\ esito' = [NessunEsito EXCEPT !.op = "scarta_mano", !.giocatore = g,
                                       !.mano = mano[g]]
       /\ UNCHANGED <<carte, briscola, forza, giocatori, carte_vinte, turni_vinti,
                      bussatori, VarTurno>>

\* fase_bussate, second loop, a folder draws a new hand and joins the round
PescaCarte ==
    /\ fase = "pescata"
    /\ Len(bussatori) <= LIMITE_BUSSATORI
    /\ Len(carte) >= CARTE_PER_MANO
    /\ Pesca(Head(affondatori))
    /\ bussatori' = Append(bussatori, Head(affondatori))
    /\ affondatori' = Tail(affondatori)
    /\ fase' = IF Tail(affondatori) = <<>> THEN "gioco" ELSE "pescata"
    /\ UNCHANGED <<briscola, forza, giocatori, carte_scartate, carte_vinte,
                   turni_vinti, VarTurno>>

\* fase_bussate, second loop, a folder stays out
NonPesca ==
    /\ fase = "pescata"
    /\ affondatori' = Tail(affondatori)
    /\ fase' = IF Tail(affondatori) = <<>> THEN "gioco" ELSE "pescata"
    /\ esito' = [NessunEsito EXCEPT !.op = "non_pesca",
                                    !.giocatore = Head(affondatori)]
    /\ UNCHANGED <<carte, briscola, forza, VarGiocatori, bussatori, VarTurno>>

(***************************************************************************)
(* The tricks.  BriscolaGame.gioca_partita itself stops at its first       *)
(* statement (GiocaPartita); the calls of its loops are made here in its   *)
(* order, on a GestoreTurno built with both its arguments.                 *)
(***************************************************************************)
\* gioca_partita: "GestoreTurno(self.briscola)" misses the required parameter
\* tracciamento: TypeError, before any trick
GiocaPartita ==
    /\ fase = "gioco"
    /\ turno = 0 /\ tavolo = <<>>
    /\ fase' = "interrotto"
    /\ esito' = [NessunEsito EXCEPT !.op = "gioca_partita", !.errore = "TypeError"]
    /\ UNCHANGED <<carte, briscola, forza, VarGiocatori, VarBussate, VarTurno>>

\* self.giocatori_attivi = bussatori
giocatori_attivi == bussatori

\* the player the caller lets act: gioca_partita's
\* giocatori_attivi[(indice_giocatore_di_mano + offset) % num_giocatori], offset
\* being the number of cards already on the table.  gioca_partita never
\* binds the name num_giocatori (GiocaPartita); the caller takes the range
\* of the loop, len(giocatori_attivi)
DiTurno ==
    giocatori_attivi[((indice_giocatore_di_mano + Len(tavolo)) % Len(giocatori_attivi)) + 1]

\* gioca_partita: giocatore_di_mano = (offset == 0)
DiMano == Len(tavolo) = 0

\* gioca_partita: primo_turno = (turno == 0)
PrimoTurno == turno = 0

\* gioca_partita: ultimo_a_giocare = (offset == num_giocatori - 1), with
\* len(giocatori_attivi) for num_giocatori as in DiTurno
UltimoAGiocare == Len(tavolo) = Len(giocatori_attivi) - 1

InGioco ==
    /\ fase = "gioco"
    /\ Len(tavolo) < Len(giocatori_attivi)

\* Giocatore.gioca_carta(i) followed by GestoreTurno.aggiungi_carta_tavolo and
\* TracciamentoCarte.registra_carta_giocata
Gioca(g, i) ==
    LET carta == mano[g][i]
    IN /\ mano' = [mano EXCEPT ![g] = SenzaIndice(@, i)]
       /\ tavolo' = Append(tavolo, Giocata(g, carta))
       /\ carte_giocate' =
              registra_carta_giocata(carte_giocate, carte_turno_corrente,
                                     carta).carte_giocate
       /\ carte_turno_corrente' =
              registra_carta_giocata(carte_giocate, carte_turno_corrente,
                                     carta).carte_turno_corrente
       /\ seme_richiesto' = seme_dopo(tavolo, seme_richiesto, carta)
       /\ carta_vincente_corrente' =
              vincente_dopo(tavolo, carta_vincente_corrente, g, carta)

Chiamata(op, g) ==
    [NessunEsito EXCEPT !.op = op, !.giocatore = g, !.primo_turno = PrimoTurno,
                        !.giocatore_di_mano = DiMano,
                        !.ultimo_a_giocare = UltimoAGiocare,
                        !.mano = mano[g], !.seme_richiesto = seme_richiesto]

\* gioca_partita: carta_giocata = gestore_turno.gioca_carta_strategica(...);
\* gestore_turno.aggiungi_carta_tavolo(giocatore, carta_giocata)
GiocaCartaStrategicaDi(g) ==
    LET r == gioca_carta_strategica(g, PrimoTurno, DiMano, UltimoAGiocare)
    IN /\ IF r.errore = ""
          THEN /\ Gioca(g, r.indice)
               /\ esito' = [Chiamata("gioca_carta_strategica", g)
                               EXCEPT !.carta = mano[g][r.indice]]
          ELSE /\ esito' = [Chiamata("gioca_carta_strategica", g)
                               EXCEPT !.errore = r.errore]
               /\ UNCHANGED <<mano, tavolo, carte_giocate, carte_turno_corrente,
                              seme_richiesto, carta_vincente_corrente>>
       /\ UNCHANGED <<fase, carte, briscola, forza, giocatori, carte_scartate,
                      carte_vinte, turni_vinti, VarBussate,
                      indice_giocatore_di_mano, turno>>

\* the call of gioca_partita's loop, for the player whose turn it is
GiocaCartaStrategica ==
    /\ InGioco
    /\ GiocaCartaStrategicaDi(DiTurno)

\* gioca_carta_strategica called for a player who holds no card: a player
\* who folded and did not draw, or one who has played the last card
GiocaCartaStrategicaSenzaCarte ==
    /\ fase = "gioco"
    /\ \E g \in Giocatori :
         /\ mano[g] = <<>>
         /\ GiocaCartaStrategicaDi(g)

\* a follower's card chosen by _gioca_carta_non_di_mano called with both its
\* arguments, then put on the table
GiocaCartaNonDiMano ==
    LET g == DiTurno
        i == _gioca_carta_non_di_mano(g, UltimoAGiocare)
    IN /\ InGioco
       /\ ~DiMano
       /\ mano[g] # <<>>
       /\ Gioca(g, i)
       /\ esito' = [Chiamata("_gioca_carta_non_di_mano", g) EXCEPT !.carta = mano[g][i]]
       /\ UNCHANGED <<fase, carte, briscola, forza, giocatori, carte_scartate,
                      carte_vinte, turni_vinti, VarBussate,
                      indice_giocatore_di_mano, turno>>

\* a follower's card taken with Giocatore.gioca_carta(indice), any index of
\* the hand, then put on the table
GiocaCartaIndice ==
    LET g == DiTurno
    IN /\ InGioco
       /\ ~DiMano
       /\ \E i \in DOMAIN mano[g] :
            /\ Gioca(g, i)
            /\ esito' = [Chiamata("gioca_carta", g) EXCEPT !.carta = mano[g][i]]
       /\ UNCHANGED <<fase, carte, briscola, forza, giocatori, carte_scartate,
                      carte_vinte, turni_vinti, VarBussate,
                      indice_giocatore_di_mano, turno>>

\* the lead seat left at 0 after every trick
IndiceDi_sempre_zero(lista, x) == 0

\* list.index(x), 0-based
IndiceDi(lista, x) == (CHOOSE i \in DOMAIN lista : lista[i] = x
                            /\ \A k \in 1..(i - 1) : lista[k] # x) - 1

\* carte_vinte collected after self.tavolo was reset
CarteDelTavolo_dopo_reset(tav) == <<>>

\* carte_vinte = [carta for _, carta in self.tavolo]
CarteDelTavolo(tav) == [i \in DOMAIN tav |-> tav[i].carta]

\* gioca_partita: vincitore, carte_vinte = gestore_turno.determina_vincitore();
\* vincitore.carte_vinte.extend(carte_vinte); vincitore.turni_vinti += 1;
\* indice_giocatore_di_mano = giocatori_attivi.index(vincitore)
DeterminaVincitore ==
    LET vincitore == carta_vincente_corrente.giocatore
    IN /\ fase = "gioco"
       /\ Len(tavolo) = Len(giocatori_attivi)
       /\ tavolo # <<>>
       /\ carte_vinte' = [carte_vinte EXCEPT ![vincitore] = @ \o CarteDelTavolo(tavolo)]
       /\ turni_vinti' = [turni_vinti EXCEPT ![vincitore] = @ + 1]
       /\ tavolo' = <<>>
       /\ seme_richiesto' = NessunSeme
       /\ carta_vincente_corrente' = NessunaGiocata
       /\ carte_giocate' = reset_turno(carte_giocate, carte_turno_corrente).carte_giocate
       /\ carte_turno_corrente' =
              reset_turno(carte_giocate, carte_turno_corrente).carte_turno_corrente
       /\ indice_giocatore_di_mano' = IndiceDi(giocatori_attivi, vincitore)
       /\ turno' = turno + 1
       /\ fase' = IF turno + 1 = CARTE_PER_MANO THEN "fine" ELSE "gioco"
       /\ esito' = [NessunEsito EXCEPT !.op = "determina_vincitore",
                                       !.giocatore = vincitore,
                                       !.carta = carta_vincente_corrente.carta,
                                       !.vinte = CarteDelTavolo(tavolo),
                                       !.tavolo = tavolo]
       /\ UNCHANGED <<carte, briscola, forza, giocatori, mano, carte_scartate,
                      VarBussate>>

Next ==
    \/ CreaMazzo
    \/ EstraiBriscola
    \/ AssegnaForzaCarte
    \/ DistribuisciCarte
    \/ FaseBussate
    \/ Bussa
    \/ Affonda
    \/ PescaCarte
    \/ NonPesca
    \/ GiocaPartita
    \/ GiocaCartaStrategica
    \/ GiocaCartaStrategicaSenzaCarte
    \/ GiocaCartaNonDiMano
    \/ GiocaCartaIndice
    \/ DeterminaVincitore

Spec == Init /\ [][Next]_vars

(***************************************************************************)
(* SpecBatte: the deck is created, cut at any card, the trump extracted    *)
(* and the strengths assigned; then _carta_batte is called on any two of   *)
(* the 40 cards.                                                           *)
(***************************************************************************)
\* random.shuffle, bounded: the cuts of the new deck (every card can come
\* first and be the trump card)
Tagliate ==
    {[i \in DOMAIN MazzoOrdinato |->
        MazzoOrdinato[((i - 1 + k) % Len(MazzoOrdinato)) + 1]] :
            k \in 0..(Len(MazzoOrdinato) - 1)}

\* inizializza_gioco: self.mazzo.crea_mazzo(); self.mazzo.mescola()
CreaMazzoTagliato ==
    /\ fase = "nuovo"
    /\ carte' \in Tagliate
    /\ fase' = "mazzo"
    /\ esito' = [NessunEsito EXCEPT !.op = "crea_mazzo"]
    /\ UNCHANGED <<briscola, forza, VarGiocatori, VarBussate, VarTurno>>

\* gestore_turno._carta_batte(a, b) and _carta_batte(b, a)
ConfrontaCarte ==
    /\ fase = "distribuzione"
    /\ \E a \in Carte, b \in Carte :
         esito' = [NessunEsito EXCEPT !.op = "_carta_batte", !.carta = a,
                                      !.carta2 = b, !.vero = _carta_batte(a, b),
                                      !.inverso = _carta_batte(b, a)]
    /\ fase' = "confronto"
    /\ UNCHANGED <<carte, briscola, forza, VarGiocatori, VarBussate, VarTurno>>

NextBatte ==
    \/ CreaMazzoTagliato
    \/ EstraiBriscola
    \/ AssegnaForzaCarte
    \/ ConfrontaCarte

SpecBatte == Init /\ [][NextBatte]_vars

(***************************************************************************)
(* The state inizializza_gioco leaves for a given trump card, before any   *)
(* card is dealt: the starting point of SpecTavolo and SpecBussata.        *)
(***************************************************************************)
\* the deck once bris has been extracted from it
MazzoSenza(bris) ==
    LET idx == InOrdine({i \in DOMAIN MazzoOrdinato : MazzoOrdinato[i] # bris})
    IN [k \in DOMAIN idx |-> MazzoOrdinato[idx[k]]]

\* crea_mazzo, estrai_briscola giving bris, assegna_forza_carte
Inizializzato(bris) ==
    /\ carte = MazzoSenza(bris)
    /\ briscola = bris
    /\ forza = assegna_forza_carte(MazzoSenza(bris), bris,
                                   [c \in Carte |-> ForzaIniziale])
    /\ giocatori = NumGiocatori
    /\ carte_scartate = [g \in Giocatori |-> <<>>]
    /\ carte_vinte = [g \in Giocatori |-> <<>>]
    /\ turni_vinti = [g \in Giocatori |-> 0]
    /\ bussatori = <<>>
    /\ affondatori = <<>>
    /\ indice_giocatore_di_mano = 0
    /\ carte_giocate = {}
    /\ carte_turno_corrente = <<>>
    /\ tavolo = <<>>
    /\ seme_richiesto = NessunSeme
    /\ carta_vincente_corrente = NessunaGiocata
    /\ turno = 0
    /\ esito = NessunEsito

(***************************************************************************)
(* SpecTavolo: one trick of a GestoreTurno that a caller feeds directly,   *)
(* aggiungi_carta_tavolo with any player and any card, up to MaxTavolo     *)
(* cards, then determina_vincitore.                                        *)
(***************************************************************************)
\* the trump cards tried
BriscoleTavolo == {Carta("Re", "coppe"), Carta("Asso", "denari")}

\* the cards the caller puts on the table
UniversoTavolo ==
    {Carta("Asso", "coppe"), Carta("3", "coppe"), Carta("2", "coppe"),
     Carta("Asso", "denari"), Carta("3", "denari"), Carta("7", "denari"),
     Carta("Asso", "spade"), Carta("2", "spade")}

InitTavolo ==
    /\ fase = "tavolo"
    /\ \E bris \in BriscoleTavolo : Inizializzato(bris)
    /\ mano = [g \in Giocatori |-> <<>>]

\* gestore_turno.aggiungi_carta_tavolo(giocatore, carta)
AggiungiCartaTavolo ==
    /\ fase = "tavolo"
    /\ turno = 0
    /\ Len(tavolo) < MaxTavolo
    /\ \E g \in Giocatori, carta \in UniversoTavolo \ ({briscola} \cup carte_giocate) :
         /\ tavolo' = Append(tavolo, Giocata(g, carta))
         /\ carte_giocate' =
                registra_carta_giocata(carte_giocate, carte_turno_corrente,
                                       carta).carte_giocate
         /\ carte_turno_corrente' =
                registra_carta_giocata(carte_giocate, carte_turno_corrente,
                                       carta).carte_turno_corrente
         /\ seme_richiesto' = seme_dopo(tavolo, seme_richiesto, carta)
         /\ carta_vincente_corrente' =
                vincente_dopo(tavolo, carta_vincente_corrente, g, carta)
         /\ esito' = [NessunEsito EXCEPT !.op = "aggiungi_carta_tavolo",
                                         !.giocatore = g, !.carta = carta,
                                         !.seme_richiesto = seme_richiesto]
    /\ UNCHANGED <<fase, carte, briscola, forza, VarGiocatori, VarBussate,
                   indice_giocatore_di_mano, turno>>

\* vincitore, carte_vinte = gestore_turno.determina_vincitore(), on a table
\* with cards or on an empty one
DeterminaVincitoreTavolo ==
    LET r == determina_vincitore(tavolo, carta_vincente_corrente)
    IN /\ fase = "tavolo"
       /\ IF r.errore = ""
          THEN /\ tavolo' = <<>>
               /\ seme_richiesto' = NessunSeme
               /\ carta_vincente_corrente' = NessunaGiocata
               /\ carte_giocate' =
                      reset_turno(carte_giocate, carte_turno_corrente).carte_giocate
               /\ carte_turno_corrente' =
                      reset_turno(carte_giocate, carte_turno_corrente).carte_turno_corrente
               /\ turno' = turno + 1
               /\ esito' = [NessunEsito EXCEPT !.op = "determina_vincitore",
                                               !.giocatore = r.vincitore,
                                               !.carta = carta_vincente_corrente.carta,
                                               !.seme_richiesto = seme_richiesto,
                                               !.vinte = r.carte_vinte,
                                               !.tavolo = tavolo]
          ELSE /\ esito' = [NessunEsito EXCEPT !.op = "determina_vincitore",
                                               !.errore = r.errore]
               /\ UNCHANGED <<tavolo, seme_richiesto, carta_vincente_corrente,
                              carte_giocate, carte_turno_corrente, turno>>
       /\ UNCHANGED <<fase, carte, briscola, forza, VarGiocatori, VarBussate,
                      indice_giocatore_di_mano>>

NextTavolo ==
    \/ AggiungiCartaTavolo
    \/ DeterminaVincitoreTavolo

SpecTavolo == InitTavolo /\ [][NextTavolo]_vars

(***************************************************************************)
(* SpecBussata: a player holds any three cards of the deck; the knock      *)
(* evaluator is called on that hand with any stake and pot.                *)
(***************************************************************************)
\* the trump cards tried
BriscoleBussata ==
    {Carta("Asso", "coppe"), Carta("Re", "coppe"), Carta("2", "coppe"),
     Carta("Asso", "denari")}

\* the cards the hand is dealt from
UniversoBussata ==
    {Carta("Asso", "coppe"), Carta("3", "coppe"), Carta("Re", "coppe"),
     Carta("Asso", "denari"), Carta("3", "denari"), Carta("Fante", "denari"),
     Carta("7", "denari"), Carta("6", "denari"), Carta("2", "spade")}

\* the hands of CARTE_PER_MANO distinct cards, none the trump card
ManiDa(universo, bris) ==
    {m \in [1..CARTE_PER_MANO -> universo \ {bris}] :
        \A i, j \in 1..CARTE_PER_MANO : i # j => m[i] # m[j]}

InitBussata ==
    /\ fase = "bussate"
    /\ \E bris \in BriscoleBussata :
         /\ Inizializzato(bris)
         /\ \E m \in ManiDa(UniversoBussata, bris) :
              mano = [g \in Giocatori |-> IF g = 0 THEN m ELSE <<>>]

\* GestoreBussata.verifica_bussata(giocatore, briscola, piatto), the player
\* having fiches chips
VerificaBussata ==
    /\ fase = "bussate"
    /\ \E fiches \in 0..MaxFiches, piatto \in 0..MaxFiches :
         esito' = [NessunEsito EXCEPT !.op = "verifica_bussata", !.giocatore = 0,
                                      !.mano = mano[0], !.fiches = fiches,
                                      !.piatto = piatto,
                                      !.vero = verifica_bussata(mano[0], briscola,
                                                                fiches, piatto)]
    /\ fase' = "valutato"
    /\ UNCHANGED <<carte, briscola, forza, VarGiocatori, VarBussate, VarTurno>>

\* GestoreBussata.ha_mano_sicura(giocatore, briscola)
HaManoSicura ==
    /\ fase = "bussate"
    /\ esito' = [NessunEsito EXCEPT !.op = "ha_mano_sicura", !.giocatore = 0,
                                    !.mano = mano[0],
                                    !.vero = ha_mano_sicura(mano[0], briscola)]
    /\ fase' = "valutato"
    /\ UNCHANGED <<carte, briscola, forza, VarGiocatori, VarBussate, VarTurno>>

\* src/game.py: bussata(calcola_punti(mano), mano, briscola)
Bussata ==
    /\ fase = "bussate"
    /\ esito' = [NessunEsito EXCEPT !.op = "bussata", !.giocatore = 0,
                                    !.mano = mano[0],
                                    !.vero = bussata(calcola_punti_mano(mano[0]),
                                                     mano[0], briscola)]
    /\ fase' = "valutato"
    /\ UNCHANGED <<carte, briscola, forza, VarGiocatori, VarBussate, VarTurno>>

NextBussata ==
    \/ VerificaBussata
    \/ HaManoSicura
    \/ Bussata

SpecBussata == InitBussata /\ [][NextBussata]_vars

(***************************************************************************)
(* SpecTraccia: the card memory of a round in which player 0 holds three   *)
(* cards, having folded and drawn again or not, and player 1 plays cards   *)
(* that the tracker registers; the tracker is then queried, twice in a     *)
(* row, for any observer and any card.                                     *)
(***************************************************************************)
\* the trump cards tried
BriscoleTraccia == {Carta("Re", "coppe"), Carta("7", "denari")}

\* the cards player 0 holds or has discarded
UniversoTraccia ==
    {Carta("3", "coppe"), Carta("2", "coppe"), Carta("Cavallo", "coppe"),
     Carta("3", "denari"), Carta("6", "denari"), Carta("Asso", "spade")}

\* the hand of player 1, in crea_mazzo's order
ManoAvversario ==
    <<Carta("Asso", "coppe"), Carta("Asso", "denari"), Carta("5", "coppe")>>

\* the cards of a deck that are not in the set S, in the order of the deck
SenzaCarte(mazzo, S) ==
    LET idx == InOrdine({i \in DOMAIN mazzo : mazzo[i] \notin S})
    IN [k \in DOMAIN idx |-> mazzo[idx[k]]]

\* the cards of the set S, in crea_mazzo's order
InOrdineDiMazzo(S) == SenzaCarte(MazzoOrdinato, Carte \ S)

InitTraccia ==
    /\ fase = "traccia"
    /\ \E bris \in BriscoleTraccia :
         \E M \in SUBSET UniversoTraccia :
           \E S \in {{}, UniversoTraccia \ M} :
             /\ Cardinality(M) = CARTE_PER_MANO
             /\ briscola = bris
             /\ mano = [g \in Giocatori |->
                          IF g = 0 THEN InOrdineDiMazzo(M)
                          ELSE IF g = 1 THEN ManoAvversario ELSE <<>>]
             /\ carte_scartate = [g \in Giocatori |->
                          IF g = 0 THEN InOrdineDiMazzo(S) ELSE <<>>]
             /\ carte = SenzaCarte(MazzoSenza(bris),
                                   M \cup S \cup Elementi(ManoAvversario))
             /\ forza = assegna_forza_carte(MazzoSenza(bris), bris,
                                            [c \in Carte |-> ForzaIniziale])
    /\ giocatori = NumGiocatori
    /\ carte_vinte = [g \in Giocatori |-> <<>>]
    /\ turni_vinti = [g \in Giocatori |-> 0]
    /\ bussatori = <<>>
    /\ affondatori = <<>>
    /\ indice_giocatore_di_mano = 0
    /\ carte_giocate = {}
    /\ carte_turno_corrente = <<>>
    /\ tavolo = <<>>
    /\ seme_richiesto = NessunSeme
    /\ carta_vincente_corrente = NessunaGiocata
    /\ turno = 0
    /\ esito = NessunEsito

\* player 1 plays a card, Giocatore.gioca_carta(i), and the tracker registers
\* it: tracciamento.registra_carta_giocata(carta)
RegistraCartaGiocata ==
    /\ fase = "traccia"
    /\ Cardinality(carte_giocate) < MaxRegistrate
    /\ \E i \in DOMAIN mano[1] :
         LET carta == mano[1][i]
             dopo == registra_carta_giocata(carte_giocate, carte_turno_corrente, carta)
         IN /\ mano' = [mano EXCEPT ![1] = SenzaIndice(@, i)]
            /\ carte_giocate' = dopo.carte_giocate
            /\ carte_turno_corrente' = dopo.carte_turno_corrente
            /\ esito' = [NessunEsito EXCEPT !.op = "registra_carta_giocata",
                                            !.giocatore = 1, !.carta = carta]
    /\ UNCHANGED <<fase, carte, briscola, forza, giocatori, carte_scartate,
                   carte_vinte, turni_vinti, VarBussate, indice_giocatore_di_mano,
                   tavolo, seme_richiesto, carta_vincente_corrente, turno>>

\* tracciamento.reset_turno()
ResetTurno ==
    /\ fase = "traccia"
    /\ carte_turno_corrente # <<>>
    /\ carte_giocate' = reset_turno(carte_giocate, carte_turno_corrente).carte_giocate
    /\ carte_turno_corrente' =
           reset_turno(carte_giocate, carte_turno_corrente).carte_turno_corrente
    /\ esito' = [NessunEsito EXCEPT !.op = "reset_turno"]
    /\ UNCHANGED <<fase, carte, briscola, forza, VarGiocatori, VarBussate,
                   indice_giocatore_di_mano, tavolo, seme_richiesto,
                   carta_vincente_corrente, turno>>

\* the cards the tracker is queried about: every card held by a player
CarteInterrogate == UniversoTraccia \cup Elementi(ManoAvversario)

\* tracciamento.carte_piu_forti_non_uscite(carta, giocatore) and
\* tracciamento.briscole_piu_forti_non_uscite(carta, giocatore)
Interrogazione(g, carta) ==
    /\ carte_giocate' = registro_dopo_carte_conosciute(g)
    /\ esito' = [NessunEsito EXCEPT !.op = "carte_piu_forti_non_uscite",
                                    !.giocatore = g, !.carta = carta,
                                    !.mano = mano[g],
                                    !.lista = carte_piu_forti_non_uscite(carta, g),
                                    !.lista2 = briscole_piu_forti_non_uscite(carta, g)]
    /\ UNCHANGED <<carte, briscola, forza, VarGiocatori, VarBussate,
                   indice_giocatore_di_mano, carte_turno_corrente, tavolo,
                   seme_richiesto, carta_vincente_corrente, turno>>

\* the two queries, for any observer and any card
Interroga ==
    /\ fase = "traccia"
    /\ \E g \in Giocatori, carta \in CarteInterrogate : Interrogazione(g, carta)
    /\ fase' = "interrogato"

\* the same two queries again, with the same arguments
InterrogaDiNuovo ==
    /\ fase = "interrogato"
    /\ Interrogazione(esito.giocatore, esito.carta)
    /\ fase' = "ripetuto"

NextTraccia ==
    \/ RegistraCartaGiocata
    \/ ResetTurno
    \/ Interroga
    \/ InterrogaDiNuovo

SpecTraccia == InitTraccia /\ [][NextTraccia]_vars

(***************************************************************************)
(* SpecPesca: a caller draws from the deck again and again, any number of  *)
(* cards up to MaxPesca at a time (Mazzo.pesca_carte), or deals hands to   *)
(* any number of players as the script of src/game.py does, until the deck *)
(* cannot serve the request.                                               *)
(***************************************************************************)
\* the trump cards tried
BriscolePesca == {Carta("Re", "coppe"), Carta("Asso", "denari")}

InitPesca ==
    /\ fase = "pesca"
    /\ \E bris \in BriscolePesca : Inizializzato(bris)
    /\ mano = [g \in Giocatori |-> <<>>]

\* the hands of distribuisci_carte, one after the other
RECURSIVE Appiattisci(_)
Appiattisci(mani) ==
    IF mani = <<>> THEN <<>> ELSE Head(mani) \o Appiattisci(Tail(mani))

\* carte = mazzo.pesca_carte(num_carte)
PescaCarteMazzo ==
    /\ fase = "pesca"
    /\ \E num_carte \in 0..MaxPesca :
         LET pescata == pesca_carte(carte, num_carte)
         IN /\ carte' = pescata[2]
            /\ esito' = [NessunEsito EXCEPT !.op = "pesca_carte",
                                            !.num_carte = num_carte,
                                            !.vinte = pescata[1]]
    /\ UNCHANGED <<fase, briscola, forza, VarGiocatori, VarBussate, VarTurno>>

\* src/game.py: mani = distribuisci_carte(num_giocatori, mazzo_gioco)
DistribuisciCarteScript ==
    /\ fase = "pesca"
    /\ \E num_giocatori \in 1..NumGiocatori :
         LET distribuite == distribuisci_carte(num_giocatori, carte)
         IN /\ carte' = distribuite[2]
            /\ esito' = [NessunEsito EXCEPT !.op = "distribuisci_carte",
                                            !.num_carte = num_giocatori * CARTE_MANO_SCRIPT,
                                            !.vinte = Appiattisci(distribuite[1])]
    /\ UNCHANGED <<fase, briscola, forza, VarGiocatori, VarBussate, VarTurno>>

NextPesca ==
    \/ PescaCarteMazzo
    \/ DistribuisciCarteScript

SpecPesca == InitPesca /\ [][NextPesca]_vars

(***************************************************************************)
(* SpecSeguace: the choice of a follower.  Player 0 leads a card, then a   *)
(* card is asked of player 1, once, either with gioca_carta_strategica or  *)
(* with _gioca_carta_non_di_mano called directly, with either value of     *)
(* ultimo_a_giocare.                                                       *)
(***************************************************************************)
\* the trump cards tried
BriscoleSeguace == {Carta("Re", "coppe"), Carta("7", "denari")}

\* the cards the follower may hold
UniversoSeguace ==
    {Carta("Asso", "coppe"), Carta("3", "coppe"), Carta("2", "coppe"),
     Carta("Asso", "denari"), Carta("3", "denari"), Carta("2", "denari"),
     Carta("4", "spade")}

\* the cards the leader may play
CarteDiApertura ==
    UniversoSeguace \cup {Carta("Cavallo", "coppe"), Carta("5", "bastoni")}

\* the other cards of the leader's hand
AltreDelPrimo == <<Carta("6", "bastoni"), Carta("7", "bastoni")>>

\* the hands of n cards the follower may hold, in every order
ManiSeguace(n) ==
    {h \in [1..n -> UniversoSeguace] : \A i, j \in 1..n : i # j => h[i] # h[j]}

InitSeguace ==
    /\ fase = "seguace"
    /\ \E bris \in BriscoleSeguace, n \in 1..CARTE_PER_MANO :
         \E h \in ManiSeguace(n), c \in CarteDiApertura \ {bris} :
           \E V \in {{}, {Carta("Asso", bris.seme)} \ (Elementi(h) \cup {c})} :
             /\ c \notin Elementi(h)
             /\ n = CARTE_PER_MANO => V = {}
             /\ briscola = bris
             /\ mano = [g \in Giocatori |->
                          IF g = 0 THEN <<c>> \o SubSeq(AltreDelPrimo, 1, n - 1)
                          ELSE IF g = 1 THEN h ELSE <<>>]
             /\ carte_giocate = V
             /\ turno = CARTE_PER_MANO - n
             /\ carte = SenzaCarte(MazzoSenza(bris),
                           Elementi(h) \cup {c} \cup V \cup Elementi(AltreDelPrimo))
             /\ forza = assegna_forza_carte(MazzoSenza(bris), bris,
                                            [x \in Carte |-> ForzaIniziale])
    /\ giocatori = NumGiocatori
    /\ carte_scartate = [g \in Giocatori |-> <<>>]
    /\ carte_vinte = [g \in Giocatori |-> <<>>]
    /\ turni_vinti = [g \in Giocatori |-> 0]
    /\ bussatori = <<>>
    /\ affondatori = <<>>
    /\ indice_giocatore_di_mano = 0
    /\ carte_turno_corrente = <<>>
    /\ tavolo = <<>>
    /\ seme_richiesto = NessunSeme
    /\ carta_vincente_corrente = NessunaGiocata
    /\ esito = NessunEsito

\* the leader's card: Giocatore.gioca_carta(0), aggiungi_carta_tavolo
ApreSeguace ==
    /\ fase = "seguace"
    /\ Gioca(0, 1)
    /\ fase' = "aperto"
    /\ esito' = [NessunEsito EXCEPT !.op = "gioca_carta", !.giocatore = 0,
                                    !.mano = mano[0], !.carta = mano[0][1]]
    /\ UNCHANGED <<carte, briscola, forza, giocatori, carte_scartate,
                   carte_vinte, turni_vinti, VarBussate,
                   indice_giocatore_di_mano, turno>>

\* the arguments of a call for the follower and the state it finds
ChiamataSeguace(op, ultimo_a_giocare) ==
    [NessunEsito EXCEPT !.op = op, !.giocatore = 1, !.primo_turno = PrimoTurno,
                        !.giocatore_di_mano = FALSE,
                        !.ultimo_a_giocare = ultimo_a_giocare,
                        !.mano = mano[1], !.seme_richiesto = seme_richiesto,
                        !.carta2 = carta_vincente_corrente.carta]

\* gioca_carta_strategica(giocatore 1, primo_turno, False, ultimo_a_giocare)
\* and, when it returns a card, aggiungi_carta_tavolo
RispondeStrategica ==
    /\ fase = "aperto"
    /\ fase' = "risposto"
    /\ \E u \in BOOLEAN :
         LET r == gioca_carta_strategica(1, PrimoTurno, FALSE, u)
         IN IF r.errore = ""
            THEN /\ Gioca(1, r.indice)
                 /\ esito' = [ChiamataSeguace("gioca_carta_strategica", u)
                                 EXCEPT !.carta = mano[1][r.indice]]
            ELSE /\ esito' = [ChiamataSeguace("gioca_carta_strategica", u)
                                 EXCEPT !.errore = r.errore]
                 /\ UNCHANGED <<mano, tavolo, carte_giocate, carte_turno_corrente,
                                seme_richiesto, carta_vincente_corrente>>
    /\ UNCHANGED <<carte, briscola, forza, giocatori, carte_scartate,
                   carte_vinte, turni_vinti, VarBussate,
                   indice_giocatore_di_mano, turno>>

\* _gioca_carta_non_di_mano(giocatore 1, ultimo_a_giocare) called with both
\* its arguments, then aggiungi_carta_tavolo
RispondeNonDiMano ==
    /\ fase = "aperto"
    /\ fase' = "risposto"
    /\ \E u \in BOOLEAN :
         LET i == _gioca_carta_non_di_mano(1, u)
         IN /\ Gioca(1, i)
            /\ esito' = [ChiamataSeguace("_gioca_carta_non_di_mano", u)
                            EXCEPT !.carta = mano[1][i]]
    /\ UNCHANGED <<carte, briscola, forza, giocatori, carte_scartate,
                   carte_vinte, turni_vinti, VarBussate,
                   indice_giocatore_di_mano, turno>>

NextSeguace ==
    \/ ApreSeguace
    \/ RispondeStrategica
    \/ RispondeNonDiMano

SpecSeguace == InitSeguace /\ [][NextSeguace]_vars

(***************************************************************************)
(* Properties                                                              *)
(***************************************************************************)
HaSeme(m, s) == \E i \in DOMAIN m : m[i].seme = s

\* the last call was gioca_carta_strategica for a player who is not the
\* leader, after a suit was led
ChiamataNonDiMano ==
    /\ esito.op = "gioca_carta_strategica"
    /\ ~esito.giocatore_di_mano
    /\ esito.seme_richiesto # NessunSeme

\* C1: follow suit.  A player who is not the leader and holds a card of the
\* led suit when gioca_carta_strategica is called for them plays a card, and
\* that card is of the led suit.
C1_RispondeAlSeme ==
    (ChiamataNonDiMano /\ HaSeme(esito.mano, esito.seme_richiesto))
        => (esito.errore = "" /\ esito.carta.seme = esito.seme_richiesto)

\* C2: trump obligation.  A player who is not the leader, holds no card of
\* the led suit and holds a trump when gioca_carta_strategica is called for
\* them plays a card, and that card is a trump.
C2_ObbligoDiBriscola ==
    (/\ ChiamataNonDiMano
     /\ ~HaSeme(esito.mano, esito.seme_richiesto)
     /\ HaSeme(esito.mano, briscola.seme))
        => (esito.errore = "" /\ esito.carta.seme = briscola.seme)

\* C3 as stated: for any two of the 40 cards, beats(a, a) is false and for
\* distinct a, b exactly one of beats(a, b), beats(b, a) holds.
C3_EsattamenteUna ==
    esito.op = "_carta_batte"
        => IF esito.carta = esito.carta2
           THEN ~esito.vero
           ELSE esito.vero # esito.inverso

\* C3, amended: beats(a, a) is false, beats(a, b) and beats(b, a) never both
\* hold, exactly one of them holds for distinct cards that share a suit or of
\* which at least one is of the trump suit, and neither holds for two cards
\* of two different suits that are not the trump suit.
C3_Batte ==
    esito.op = "_carta_batte"
        => LET a == esito.carta
               b == esito.carta2
               confrontabili == \/ a.seme = b.seme
                                \/ a.seme = briscola.seme
                                \/ b.seme = briscola.seme
           IN /\ a = b => ~esito.vero
              /\ ~(esito.vero /\ esito.inverso)
              /\ (a # b /\ confrontabili) => (esito.vero # esito.inverso)
              /\ ~confrontabili => (~esito.vero /\ ~esito.inverso)

\* C3: two distinct cards of two non-trump suits were compared, the first
\* the stronger one, and neither beats the other
C3_Testimone ==
    /\ esito.op = "_carta_batte"
    /\ esito.carta.seme # esito.carta2.seme
    /\ esito.carta.seme # briscola.seme
    /\ esito.carta2.seme # briscola.seme
    /\ forza[esito.carta] > forza[esito.carta2]
    /\ ~esito.vero /\ ~esito.inverso

\* a card is of the trump suit
EBriscola(c) == c.seme = briscola.seme

\* folding beats over the table in play order, from its first card
RECURSIVE Piega(_)
Piega(tav) ==
    IF Len(tav) = 1 THEN tav[1]
    ELSE LET prima == Piega(SubSeq(tav, 1, Len(tav) - 1))
             ultima == tav[Len(tav)]
         IN IF _carta_batte(ultima.carta, prima.carta) THEN ultima ELSE prima

\* the entry of the strongest trump on the table if a trump was played,
\* otherwise the entry of the strongest card of the suit of the first card
PiuForteDelTavolo(tav) ==
    LET candidate == IF \E i \in DOMAIN tav : EBriscola(tav[i].carta)
                     THEN {i \in DOMAIN tav : EBriscola(tav[i].carta)}
                     ELSE {i \in DOMAIN tav : tav[i].carta.seme = tav[1].carta.seme}
    IN tav[CHOOSE i \in candidate :
               \A k \in candidate \ {i} : forza[tav[i].carta] > forza[tav[k].carta]]

\* C4: while cards are on the table the provisional winner is the fold of
\* beats over the table in play order, which is the entry of the strongest
\* trump played if any and of the strongest card of the led suit otherwise;
\* determina_vincitore returns the player of that entry.
C4_Vincitore ==
    /\ tavolo # <<>> =>
         /\ carta_vincente_corrente = Piega(tavolo)
         /\ carta_vincente_corrente = PiuForteDelTavolo(tavolo)
    /\ (esito.op = "determina_vincitore" /\ esito.errore = "") =>
         /\ Giocata(esito.giocatore, esito.carta) = Piega(esito.tavolo)
         /\ esito.giocatore = PiuForteDelTavolo(esito.tavolo).giocatore

\* C4: a trick of three cards was resolved in which the second card, a trump,
\* took the trick from a led non-trump and a later card was a weaker trump
C4_Testimone ==
    /\ esito.op = "determina_vincitore"
    /\ Len(esito.tavolo) = 3
    /\ ~EBriscola(esito.tavolo[1].carta)
    /\ EBriscola(esito.tavolo[2].carta)
    /\ EBriscola(esito.tavolo[3].carta)
    /\ esito.carta = esito.tavolo[2].carta
    /\ esito.giocatore = esito.tavolo[2].giocatore
    /\ esito.giocatore # esito.tavolo[3].giocatore

\* the lists of all players, one after the other
RECURSIVE Concatena(_, _)
Concatena(f, n) == IF n = 0 THEN <<>> ELSE Concatena(f, n - 1) \o f[n - 1]

\* every card held anywhere in the round
TutteLeCarte ==
    carte \o (IF briscola = Nessuna THEN <<>> ELSE <<briscola>>)
          \o Concatena(mano, NumGiocatori)
          \o Concatena(carte_scartate, NumGiocatori)
          \o CarteDelTavolo(tavolo)
          \o Concatena(carte_vinte, NumGiocatori)

\* C5: card conservation.  Once the deck is created, the deck, the trump
\* card, the hands, the discard piles, the table and the won piles together
\* hold each of the 40 cards exactly once.
C5_Conservazione ==
    fase # "nuovo" =>
        /\ Len(TutteLeCarte) = Len(MazzoOrdinato)
        /\ Elementi(TutteLeCarte) = Carte

\* C5: a round ended after three tricks in which a player had folded and
\* drawn a new hand, so that cards lie in the deck, a discard pile and the
\* won piles
C5_Testimone ==
    /\ fase = "fine"
    /\ turno = CARTE_PER_MANO
    /\ \E g \in Giocatori : Len(carte_scartate[g]) = CARTE_PER_MANO
    /\ Len(Concatena(carte_vinte, NumGiocatori)) = CARTE_PER_MANO * Len(giocatori_attivi)
    /\ Len(giocatori_attivi) > 1
    /\ carte # <<>>

AssoDiBriscola == Carta("Asso", briscola.seme)

\* C6: Rule A.  When gioca_carta_strategica is called for the leader of the
\* first trick and the hand holds the trump-suit Ace, the Ace is the card
\* taken from the hand and played.
C6_AssoObbligato ==
    (/\ esito.op = "gioca_carta_strategica"
     /\ esito.giocatore_di_mano
     /\ esito.primo_turno
     /\ AssoDiBriscola \in Elementi(esito.mano))
        => /\ esito.errore = ""
           /\ esito.carta = AssoDiBriscola
           /\ tavolo # <<>>
           /\ tavolo[Len(tavolo)] = Giocata(esito.giocatore, AssoDiBriscola)
           /\ AssoDiBriscola \notin Elementi(mano[esito.giocatore])
           /\ Len(mano[esito.giocatore]) = Len(esito.mano) - 1

\* C6: the leader of the first trick held the trump Ace as the last card of
\* the hand, after another trump and a non-trump, and played it
C6_Testimone ==
    /\ esito.op = "gioca_carta_strategica"
    /\ esito.giocatore_di_mano
    /\ esito.primo_turno
    /\ Len(esito.mano) = CARTE_PER_MANO
    /\ esito.mano[CARTE_PER_MANO] = AssoDiBriscola
    /\ \E i \in DOMAIN esito.mano : ~EBriscola(esito.mano[i])
    /\ \E i \in DOMAIN esito.mano : EBriscola(esito.mano[i]) /\ esito.mano[i] # AssoDiBriscola
    /\ esito.carta = AssoDiBriscola

\* the sum of the strengths of the cards of a hand
PuntiDi(m) == Somma([i \in DOMAIN m |-> forza[m[i]]])

\* C7: verifica_bussata is true whenever the hand holds the trump-suit Ace,
\* and whenever the trump card is an Ace and the hand holds the trump-suit 3,
\* whatever the points of the hand, the stake and the pot.
C7_ManoSicura ==
    (/\ esito.op = "verifica_bussata"
     /\ \/ AssoDiBriscola \in Elementi(esito.mano)
        \/ /\ briscola.valore = "Asso"
           /\ Carta("3", briscola.seme) \in Elementi(esito.mano))
        => esito.vero

\* C7: the trump card is an Ace, the hand holds the trump 3, is worth no more
\* than the threshold, the stake is below the pot, and the answer is true
C7_Testimone ==
    /\ esito.op = "verifica_bussata"
    /\ briscola.valore = "Asso"
    /\ Carta("3", briscola.seme) \in Elementi(esito.mano)
    /\ PuntiDi(esito.mano) <= SOGLIA_PUNTI_BUSSATA
    /\ esito.fiches < esito.piatto
    /\ esito.vero

\* C8: when the trump card is not an Ace, a hand with the trump-suit 3 and
\* the trump-suit Re makes the knock test true (verifica_bussata, and the
\* script's bussata); a hand with the trump-suit 3, without the trump-suit Re
\* and Ace and worth no more than the threshold makes it false (150 for
\* verifica_bussata, 120 for the script's bussata).
C8_TreERe ==
    LET tre == Carta("3", briscola.seme) \in Elementi(esito.mano)
        re == Carta("Re", briscola.seme) \in Elementi(esito.mano)
        asso == AssoDiBriscola \in Elementi(esito.mano)
        soglia == IF esito.op = "bussata" THEN SOGLIA_PUNTI_SCRIPT
                  ELSE SOGLIA_PUNTI_BUSSATA
    IN (esito.op \in {"verifica_bussata", "bussata"} /\ briscola.valore # "Asso")
         => /\ (tre /\ re) => esito.vero
            /\ (tre /\ ~re /\ ~asso /\ PuntiDi(esito.mano) <= soglia) => ~esito.vero

\* C8: the trump card is a 2; a hand with the trump 3 and Re got true from
\* verifica_bussata with a stake below the pot
C8_Testimone ==
    /\ esito.op = "verifica_bussata"
    /\ briscola.valore = "2"
    /\ Carta("3", briscola.seme) \in Elementi(esito.mano)
    /\ Carta("Re", briscola.seme) \in Elementi(esito.mano)
    /\ esito.fiches < esito.piatto
    /\ esito.vero

\* rules 1 to 3 of the knock policy
ManoSicura(m) ==
    \/ AssoDiBriscola \in Elementi(m)
    \/ /\ briscola.valore # "Asso"
       /\ Carta("3", briscola.seme) \in Elementi(m)
       /\ Carta("Re", briscola.seme) \in Elementi(m)
    \/ /\ briscola.valore = "Asso"
       /\ Carta("3", briscola.seme) \in Elementi(m)

\* C9: for a hand that is not safe, verifica_bussata is true exactly when the
\* hand is worth strictly more than 150 and the stake is at least the pot; a
\* hand worth exactly 150 gives false.
C9_Soglia ==
    (esito.op = "verifica_bussata" /\ ~ManoSicura(esito.mano))
        => /\ esito.vero <=> (/\ PuntiDi(esito.mano) > SOGLIA_PUNTI_BUSSATA
                              /\ esito.fiches >= esito.piatto)
           /\ PuntiDi(esito.mano) = SOGLIA_PUNTI_BUSSATA => ~esito.vero

\* C9: a hand that is not safe and worth exactly the threshold got false
\* with a stake that covers the pot
C9_Testimone ==
    /\ esito.op = "verifica_bussata"
    /\ ~ManoSicura(esito.mano)
    /\ PuntiDi(esito.mano) = SOGLIA_PUNTI_BUSSATA
    /\ esito.fiches >= esito.piatto
    /\ ~esito.vero

\* the ranks of a ranking table have pairwise distinct strengths
SenzaDoppioni(tab) == \A v, w \in DOMAIN tab : v # w => tab[v] # tab[w]

\* C10: once the strengths are assigned, the trump-suit Ace is at least as
\* strong as every one of the 40 cards, also when it is the trump card itself,
\* and each ranking table gives its 10 ranks distinct strengths.
C10_AssoMassimo ==
    fase \in {"distribuzione", "confronto"}
        => /\ \A c \in Carte : forza[AssoDiBriscola] >= forza[c]
           /\ SenzaDoppioni(FORZA_BRISCOLA)
           /\ SenzaDoppioni(FORZA_NON_BRISCOLA)

\* the ranks of the ranking tables
Ranghi == {VALORI[i] : i \in DOMAIN VALORI}

\* C11 as stated: the two ranking tables have disjoint value sets and every
\* strength of the trump table is strictly greater than every strength of the
\* non-trump table (ConfigurazioneGioco, and the tables of src/game.py); so,
\* once the strengths are assigned, every trump-suit card of the deck is
\* stronger than every card of another suit.
C11_TabelleDisgiunte ==
    fase \in {"distribuzione", "confronto"}
        => /\ \A v, w \in Ranghi : FORZA_BRISCOLA[v] # FORZA_NON_BRISCOLA[w]
           /\ \A v, w \in Ranghi : FORZA_BRISCOLA[v] > FORZA_NON_BRISCOLA[w]
           /\ \A v, w \in Ranghi : forza_briscola[v] > forza_non_briscola[w]
           /\ \A c, d \in Elementi(carte) :
                 (c.seme = briscola.seme /\ d.seme # briscola.seme)
                     => forza[c] > forza[d]

\* C11, amended: each table gives its ten ranks pairwise distinct strengths,
\* the two tables rank the ten ranks in the same order, every rank is
\* strictly stronger in the trump table than in the non-trump table, and the
\* trump Ace is stronger than every strength of the non-trump table; the
\* tables of src/game.py are the same tables.  So, once the strengths are
\* assigned, a trump-suit card of the deck is stronger than the cards of its
\* own rank in the other suits, and the trump-suit Ace, when in the deck, is
\* stronger than every card of another suit.
C11_Tabelle ==
    fase \in {"distribuzione", "confronto"}
        => /\ SenzaDoppioni(FORZA_BRISCOLA)
           /\ SenzaDoppioni(FORZA_NON_BRISCOLA)
           /\ \A v, w \in Ranghi :
                 (FORZA_BRISCOLA[v] > FORZA_BRISCOLA[w])
                     <=> (FORZA_NON_BRISCOLA[v] > FORZA_NON_BRISCOLA[w])
           /\ \A v \in Ranghi : FORZA_BRISCOLA[v] > FORZA_NON_BRISCOLA[v]
           /\ \A w \in Ranghi : FORZA_BRISCOLA["Asso"] > FORZA_NON_BRISCOLA[w]
           /\ forza_briscola = FORZA_BRISCOLA
           /\ forza_non_briscola = FORZA_NON_BRISCOLA
           /\ \A c, d \in Elementi(carte) :
                 (c.seme = briscola.seme /\ d.seme # briscola.seme)
                     => /\ c.valore = d.valore => forza[c] > forza[d]
                        /\ c.valore = "Asso" => forza[c] > forza[d]

\* C11: the trump 6 was compared with a Cavallo of another suit; the two have
\* the same assigned strength and the trump beats the Cavallo
C11_Testimone ==
    /\ esito.op = "_carta_batte"
    /\ esito.carta = Carta("6", briscola.seme)
    /\ esito.carta2.valore = "Cavallo"
    /\ esito.carta2.seme # briscola.seme
    /\ forza[esito.carta] = forza[esito.carta2]
    /\ forza[esito.carta] = FORZA_BRISCOLA["6"]
    /\ esito.vero /\ ~esito.inverso

\* C12 as stated: once the strengths are assigned, any two distinct cards of
\* the 40 have distinct strengths.
C12_SenzaParita ==
    fase \in {"distribuzione", "confronto"}
        => \A a, b \in Carte : a # b => forza[a] # forza[b]

\* C12, amended: once the strengths are assigned, any two distinct cards of
\* the same suit have distinct strengths (cards of different suits can tie).
C12_DistinteNelSeme ==
    fase \in {"distribuzione", "confronto"}
        => \A a, b \in Carte : (a # b /\ a.seme = b.seme) => forza[a] # forza[b]

\* C12: two Aces of two non-trump suits were compared: they have the same
\* strength and neither beats the other, while the trump card, which
\* kept its initial strength, differs from every card of its suit
C12_Testimone ==
    /\ esito.op = "_carta_batte"
    /\ esito.carta.valore = "Asso" /\ esito.carta2.valore = "Asso"
    /\ esito.carta # esito.carta2
    /\ esito.carta.seme # briscola.seme /\ esito.carta2.seme # briscola.seme
    /\ forza[esito.carta] = forza[esito.carta2]
    /\ ~esito.vero /\ ~esito.inverso
    /\ forza[briscola] = ForzaIniziale

\* the strength of a card under the trump ranking of the round
Rango(c) ==
    IF c.seme = briscola.seme
    THEN FORZA_BRISCOLA[c.valore]
    ELSE FORZA_NON_BRISCOLA[c.valore]

\* the cards of the suit of c that rank above c and are not in the observer's
\* hand, nor in the observer's discards, nor among the cards played so far
PiuFortiNonViste(c, g) ==
    {d \in Carte :
        /\ d.seme = c.seme
        /\ Rango(d) > Rango(c)
        /\ d \notin Elementi(mano[g])
        /\ d \notin Elementi(carte_scartate[g])
        /\ d \notin carte_giocate}

C15_RegistroCumulativo ==
    [][/\ carte_giocate \subseteq carte_giocate'
       /\ esito'.op = "determina_vincitore"
            => /\ carte_turno_corrente' = <<>>
               /\ carte_giocate' = carte_giocate
       /\ carte_giocate' = Elementi(CarteDelTavolo(tavolo'))
                              \cup Elementi(Concatena(carte_vinte', NumGiocatori))
       /\ carte_turno_corrente' = CarteDelTavolo(tavolo')]_vars

\* C15: the second trick of two players was resolved: the list of the
\* current trick is empty and the record holds the four cards played
C15_Testimone ==
    /\ esito.op = "determina_vincitore"
    /\ turno = 2
    /\ Len(giocatori_attivi) = 2
    /\ carte_turno_corrente = <<>>
    /\ Cardinality(carte_giocate) = 4

\* the cards of the plays of a trick, in play order
CarteInOrdineDiGioco(tav) == [i \in DOMAIN tav |-> tav[i].carta]

\* a list is the beginning of another
Prefisso(a, b) == Len(a) <= Len(b) /\ SubSeq(b, 1, Len(a)) = a

HannoGiocato == {tavolo[i].giocatore : i \in DOMAIN tavolo}

PostoDi(primo, i) == ((primo + i - 1) % Len(giocatori_attivi)) + 1

\* C18: the plays on the table were made by the active players in seat order
\* from the lead seat, wrapping around, each player once; and a call of
\* gioca_partita plays the three tricks that way: it raises nothing, and
\* when it returns every active player has played the three cards held.
C18_OrdineDiPosto ==
    /\ fase \in {"gioco", "fine"}
         => \A i \in DOMAIN tavolo :
              /\ i <= Len(giocatori_attivi)
              /\ tavolo[i].giocatore =
                     giocatori_attivi[PostoDi(indice_giocatore_di_mano, i)]
    /\ esito.op = "gioca_partita"
         => /\ esito.errore = ""
            /\ \A g \in Elementi(giocatori_attivi) : mano[g] = <<>>
            /\ Cardinality(carte_giocate) = CARTE_PER_MANO * Len(giocatori_attivi)

\* C19: a started round never stops before its end, and it ends either with
\* no knocker, no trick played and no card or trick won by anyone, or with
\* exactly three tricks resolved, each won by one player.
C19_Termina ==
    /\ fase # "interrotto"
    /\ fase = "fine"
         => IF giocatori_attivi = <<>>
            THEN /\ turno = 0
                 /\ \A g \in Giocatori : carte_vinte[g] = <<>> /\ turni_vinti[g] = 0
            ELSE /\ turno = CARTE_PER_MANO
                 /\ Somma([i \in 1..NumGiocatori |-> turni_vinti[i - 1]]) = CARTE_PER_MANO

\* C20: gioca_carta_strategica called for a player whose hand is empty raises
\* the empty-hand error (ValueError) and leaves the hands, the table, the led
\* suit, the provisional winner, the tracker, the discards and the won cards
\* unchanged.
C20_ManoVuota ==
    [][(esito'.op = "gioca_carta_strategica" /\ esito'.mano = <<>>)
          => /\ esito'.errore = "ValueError"
             /\ UNCHANGED <<mano, tavolo, seme_richiesto, carta_vincente_corrente,
                            carte_giocate, carte_turno_corrente, carte_scartate,
                            carte_vinte>>]_vars

\* C20: the call was made for a player without cards who is not the leader,
\* while a card lay on the table, and raised the empty-hand error
C20_Testimone ==
    /\ esito.op = "gioca_carta_strategica"
    /\ esito.mano = <<>>
    /\ mano[esito.giocatore] = <<>>
    /\ ~esito.giocatore_di_mano
    /\ esito.seme_richiesto # NessunSeme
    /\ tavolo # <<>>
    /\ esito.errore = "ValueError"

\* C21: a draw that asks for more cards than the deck holds returns no card
\* and leaves the deck as it was; a draw that asks for n cards of a deck
\* holding at least n returns the first n cards of the deck, in order, and
\* the deck is left with the cards that followed them (Mazzo.pesca_carte, and
\* distribuisci_carte of src/game.py for the cards of all hands together).
C21_Pesca ==
    [][esito'.op \in {"pesca_carte", "distribuisci_carte"}
          => LET n == esito'.num_carte
             IN IF n > Len(carte)
                THEN esito'.vinte = <<>> /\ carte' = carte
                ELSE /\ Len(esito'.vinte) = n
                     /\ esito'.vinte \o carte' = carte]_vars

\* C21: with cards left in the deck, a draw asked for more than remained and
\* got nothing; the deck is still there
C21_Testimone ==
    /\ esito.op = "pesca_carte"
    /\ carte # <<>>
    /\ esito.num_carte > Len(carte)
    /\ esito.vinte = <<>>

\* C22: determina_vincitore on a table with cards returns the cards of the
\* table in play order and the player of the provisional winner, and leaves
\* the table empty, no led suit and no provisional winner; while cards are
\* on the table the led suit is the suit of the first card and does not
\* change; determina_vincitore on an empty table raises ValueError and
\* changes nothing.
C22_Risoluzione ==
    [][/\ (esito'.op = "determina_vincitore" /\ tavolo # <<>>)
            => /\ esito'.errore = ""
               /\ esito'.vinte = CarteInOrdineDiGioco(tavolo)
               /\ esito'.giocatore = carta_vincente_corrente.giocatore
               /\ tavolo' = <<>>
               /\ seme_richiesto' = NessunSeme
               /\ carta_vincente_corrente' = NessunaGiocata
       /\ (esito'.op = "determina_vincitore" /\ tavolo = <<>>)
            => /\ esito'.errore = "ValueError"
               /\ UNCHANGED <<tavolo, seme_richiesto, carta_vincente_corrente,
                              carte_giocate, carte_turno_corrente, mano,
                              carte_vinte, turni_vinti>>
       /\ tavolo' # <<>> => seme_richiesto' = tavolo'[1].carta.seme
       /\ (tavolo # <<>> /\ tavolo' # <<>>) => seme_richiesto' = seme_richiesto]_vars

\* C22: a trick of three cards was resolved whose second and third cards were
\* not of the led suit; the led suit was still the suit of the first card,
\* the three cards were returned and the engine is empty
C22_Testimone ==
    /\ esito.op = "determina_vincitore"
    /\ esito.errore = ""
    /\ Len(esito.vinte) = 3
    /\ esito.seme_richiesto = esito.tavolo[1].carta.seme
    /\ esito.tavolo[2].carta.seme # esito.seme_richiesto
    /\ esito.tavolo[3].carta.seme # esito.seme_richiesto
    /\ tavolo = <<>>
    /\ seme_richiesto = NessunSeme
    /\ carta_vincente_corrente = NessunaGiocata

\* C22: determina_vincitore was called on the engine a resolution had left
\* empty, and raised ValueError
C22_TavoloVuoto ==
    /\ esito.op = "determina_vincitore"
    /\ esito.errore = "ValueError"
    /\ turno = 1
    /\ tavolo = <<>>

\* Rule B's legal subset of the hand the last call found: the cards of the
\* led suit, else the trumps, else every card
CarteLegali ==
    LET m == Elementi(esito.mano)
    IN IF HaSeme(esito.mano, esito.seme_richiesto)
       THEN {c \in m : c.seme = esito.seme_richiesto}
       ELSE IF HaSeme(esito.mano, briscola.seme)
       THEN {c \in m : c.seme = briscola.seme}
       ELSE m

\* the legal cards that beat the provisional winner the last call found
CandidateVincenti == {c \in CarteLegali : _carta_batte(c, esito.carta2)}

PiuDeboli(S) == {c \in S : \A d \in S : forza[c] <= forza[d]}

PiuForti(S) == {c \in S : \A d \in S : forza[c] >= forza[d]}

\* the last call asked a card of a follower who held cards of the led suit
\* or trumps
SeguaceConLegali(op) ==
    /\ esito.op = op
    /\ ~esito.giocatore_di_mano
    /\ esito.seme_richiesto # NessunSeme
    /\ \/ HaSeme(esito.mano, esito.seme_richiesto)
       \/ HaSeme(esito.mano, briscola.seme)

\* the card C23 expects
AttesaDaUltimo ==
    IF CandidateVincenti # {} THEN PiuDeboli(CandidateVincenti)
    ELSE PiuDeboli(CarteLegali)

\* C23: a follower who is last to act and holds cards of the led suit, or none
\* of them and trumps, plays the weakest legal card that beats the provisional
\* winner if one does, else the weakest legal card, when gioca_carta_strategica
\* is called for them.
C23_UltimoAGiocare ==
    (SeguaceConLegali("gioca_carta_strategica") /\ esito.ultimo_a_giocare)
        => (esito.errore = "" /\ esito.carta \in AttesaDaUltimo)

\* C23 for _gioca_carta_non_di_mano called with both its arguments
C23_ChiamataDiretta ==
    (SeguaceConLegali("_gioca_carta_non_di_mano") /\ esito.ultimo_a_giocare)
        => (esito.errore = "" /\ esito.carta \in AttesaDaUltimo)

\* the legal subset of the last call consists of trumps
LegaliBriscole == \A c \in CarteLegali : c.seme = briscola.seme

\* the weakest winning candidate of the last call can still be overtaken: a
\* stronger trump is outside the cards the player knows
ARischio ==
    \E c \in PiuDeboli(CandidateVincenti) :
        PiuFortiNonViste(c, esito.giocatore) # {}

\* C24: _gioca_carta_non_di_mano, called for a follower who is not last to
\* act and whose legal cards are trumps, some of which beat the provisional
\* winner while no stronger trump than the weakest of these is outside the
\* cards the player knows, plays the weakest of the trumps that win, whatever
\* the order of the hand.
C24_VincentePiuBassa ==
    (/\ SeguaceConLegali("_gioca_carta_non_di_mano")
     /\ ~esito.ultimo_a_giocare
     /\ LegaliBriscole
     /\ CandidateVincenti # {}
     /\ ~ARischio)
        => esito.carta \in PiuDeboli(CandidateVincenti)

\* C25: a follower who is not last to act and whose legal cards are trumps
\* plays the weakest legal trump when none of them beats the provisional
\* winner or the weakest that does is at risk, when gioca_carta_strategica is
\* called for them.
C25_BriscolaPiuBassa ==
    (/\ SeguaceConLegali("gioca_carta_strategica")
     /\ ~esito.ultimo_a_giocare
     /\ LegaliBriscole
     /\ (CandidateVincenti = {} \/ ARischio))
        => (esito.errore = "" /\ esito.carta \in PiuDeboli(CarteLegali))

\* C25 for _gioca_carta_non_di_mano called with both its arguments
C25_ChiamataDiretta ==
    (/\ SeguaceConLegali("_gioca_carta_non_di_mano")
     /\ ~esito.ultimo_a_giocare
     /\ LegaliBriscole
     /\ (CandidateVincenti = {} \/ ARischio))
        => (esito.errore = "" /\ esito.carta \in PiuDeboli(CarteLegali))

\* the card C26 expects of a follower called with operation op
AttesaNonBriscola(op) ==
    /\ (/\ SeguaceConLegali(op)
        /\ ~esito.ultimo_a_giocare
        /\ ~LegaliBriscole)
          => /\ esito.errore = ""
             /\ esito.carta \in IF CandidateVincenti # {}
                                THEN PiuDeboli(CandidateVincenti)
                                ELSE PiuForti(CarteLegali)
    /\ (/\ esito.op = op
        /\ ~esito.giocatore_di_mano
        /\ esito.seme_richiesto # NessunSeme
        /\ esito.mano # <<>>
        /\ ~HaSeme(esito.mano, esito.seme_richiesto)
        /\ ~HaSeme(esito.mano, briscola.seme))
          => /\ esito.errore = ""
             /\ esito.carta \in PiuDeboli(Elementi(esito.mano))

\* C26: a follower who is not last to act and holds cards of a led suit that
\* is not the trump suit plays the weakest of them that beats the provisional
\* winner, else the strongest of them; a follower who holds neither a card of
\* the led suit nor a trump plays a weakest card of the hand; when
\* gioca_carta_strategica is called for them.
C26_NonBriscola == AttesaNonBriscola("gioca_carta_strategica")

\* C26 for _gioca_carta_non_di_mano called with both its arguments
C26_ChiamataDiretta == AttesaNonBriscola("_gioca_carta_non_di_mano")

\* the trumps and the other cards of the hand the last call found
BriscoleInMano == {c \in Elementi(esito.mano) : c.seme = briscola.seme}

NonBriscoleInMano == {c \in Elementi(esito.mano) : c.seme # briscola.seme}

\* the strongest trump of that hand is the Ace or the 3 and no stronger trump
\* is outside the cards the player knows
BriscolaSicura ==
    \E c \in PiuForti(BriscoleInMano) :
        /\ c.valore \in {"Asso", "3"}
        /\ PiuFortiNonViste(c, esito.giocatore) = {}

\* the last call was gioca_carta_strategica for a leader whom Rule 1 (first
\* trick, Ace of trumps in hand) does not bind
DiManoSenzaObbligo ==
    /\ esito.op = "gioca_carta_strategica"
    /\ esito.giocatore_di_mano
    /\ esito.mano # <<>>
    /\ ~(esito.primo_turno /\ HaCarta(esito.mano, "Asso", briscola.seme))

\* C27: a leader whom Rule 1 does not bind plays the strongest trump when the
\* hand holds only trumps; otherwise the strongest trump when it is the Ace or
\* the 3 of trumps and no stronger trump is outside the cards the leader
\* knows; otherwise a strongest non-trump.  A leader who holds a non-trump
\* never leads a trump while a stronger trump is outside the cards they know.
C27_DiMano ==
    DiManoSenzaObbligo
        => /\ esito.errore = ""
           /\ esito.carta \in
                IF NonBriscoleInMano = {} THEN PiuForti(BriscoleInMano)
                ELSE IF BriscolaSicura THEN PiuForti(BriscoleInMano)
                ELSE PiuForti(NonBriscoleInMano)
           /\ (NonBriscoleInMano # {} /\ esito.carta.seme = briscola.seme)
                => PiuFortiNonViste(esito.carta, esito.giocatore) = {}

\* C27: a leader holding the 3 of trumps and a non-trump led the 3 after the
\* Ace of trumps had been played
C27_Testimone ==
    /\ DiManoSenzaObbligo
    /\ NonBriscoleInMano # {}
    /\ esito.carta = Carta("3", briscola.seme)
    /\ Carta("Asso", briscola.seme) \in carte_giocate

CarteSulTavoloPrima ==
    IF esito.errore = "" THEN Len(tavolo) - 1 ELSE Len(tavolo)

\* C29: gioca_partita raises nothing, and in each of its tricks, whatever the
\* number of active players, the call of gioca_carta_strategica gets
\* giocatore_di_mano true exactly for the first play of the trick and
\* ultimo_a_giocare true exactly for the last one.
C29_PrimoEUltimo ==
    /\ (fase = "gioco" /\ esito.op = "gioca_carta_strategica"
                       /\ esito.giocatore = DiTurno)
         => /\ esito.giocatore_di_mano <=> CarteSulTavoloPrima = 0
            /\ esito.ultimo_a_giocare <=>
                   CarteSulTavoloPrima = Len(giocatori_attivi) - 1
    /\ esito.op = "gioca_partita" => esito.errore = ""

\* C30: the two queries of the tracker never return the trump card of the
\* round among the stronger cards not yet out; and a leader whom Rule 1 does
\* not bind and who holds the 3 of trumps while the trump card of the round
\* is the Ace leads the 3.
C30_BriscolaScoperta ==
    /\ esito.op = "carte_piu_forti_non_uscite"
         => /\ briscola \notin Elementi(esito.lista)
            /\ briscola \notin Elementi(esito.lista2)
    /\ (/\ DiManoSenzaObbligo
        /\ briscola.valore = "Asso"
        /\ HaCarta(esito.mano, "3", briscola.seme))
         => esito.carta = Carta("3", briscola.seme)

====
